---- MODULE Spec2Model ----
(***************************************************************************)
(* Model of the Markov-chain prioritisation core of ffuf (package markov): *)
(* the state classifier and reward function (inputprovider.go), the        *)
(* Q-learning transition model (markov.go), the feedback controller with   *)
(* its plain transition-probability chain (package ffuf) and the input     *)
(* provider adapter (inputprovider.go).                                    *)
(*                                                                         *)
(* Numbers.  Go float64 rewards are multiples of 0.1 and are held here in  *)
(* tenths (1.0 is 10, 0.5 is 5).  Q-values are held as integers scaled by  *)
(* QScale, which is chosen so that every Q-value the bounded model can     *)
(* produce is an exact integer; the arithmetic is the exact arithmetic of  *)
(* the Go expression, without float64 rounding.                            *)
(***************************************************************************)
EXTENDS Integers, Sequences, FiniteSets, Bags, TLC

VARIABLES
    baselineState,      \* MarkovInputProvider.baselineState
    baselineSizeHash,   \* MarkovInputProvider.baselineSizeHash
    resp,               \* the Response last handed to the reward function
    reward,             \* the value the reward function returned for it (tenths)
    QTable,             \* MarkovChain.QTable[state][action]
    TransitionCounts,   \* MarkovChain.TransitionCounts[state][action][next]
    ActionCounts,       \* MarkovChain.ActionCounts[state][action]
    StateCounts,        \* MarkovChain.StateCounts[state]
    AvailableActions,   \* MarkovChain.AvailableActions[state]
    updates,            \* number of UpdateTransition calls made so far
    call,               \* the last operation called, with its arguments
    ret,                \* what that operation returned
    wordlist,           \* the caller's candidate slice passed to the last ranking call
    matchedInputs,      \* mFeedbackController.matchedInputs
    responseHistory,    \* mFeedbackController.responseHistory
    mTransitions,       \* mMarkovChain.Transitions[from][to], as <<count, total>>
    mStateCounts,       \* mMarkovChain.StateCounts[from][to]
    CurrentState,       \* mMarkovChain.CurrentState
    History,            \* mMarkovChain.History
    probes,             \* number of probes the scan loop has fed to the controller
    period,             \* the scan loop's response pattern repeats with this period
    currentBatch,       \* MarkovInputProvider.currentBatch
    currentIndex,       \* MarkovInputProvider.currentIndex
    previousInputs,     \* MarkovInputProvider.previousInputs
    mutex,              \* MarkovInputProvider.mutex: "unlocked" or the method holding it
    source,             \* MarkovInputProvider.OriginalProvider: its inputs and position
    sourceCalls,        \* the calls the wrapped provider received during the last operation
    pc,                 \* where the caller of the adapter stands inside its call
    threads             \* the worker goroutines: each one's operation, step, locks and locals

rewardVars == <<baselineState, baselineSizeHash, resp, reward>>
chainVars  == <<QTable, TransitionCounts, ActionCounts, StateCounts, AvailableActions>>
callVars   == <<updates, call, ret, wordlist>>
mChainVars == <<mTransitions, mStateCounts, CurrentState, History>>
controllerVars == <<matchedInputs, responseHistory, mChainVars>>
scanVars   == <<probes, period>>
adapterVars == <<currentBatch, currentIndex, previousInputs, mutex, source, sourceCalls, pc>>
vars == <<baselineState, baselineSizeHash, resp, reward,
          QTable, TransitionCounts, ActionCounts, StateCounts, AvailableActions,
          updates, call, ret, wordlist,
          matchedInputs, responseHistory, mTransitions, mStateCounts, CurrentState,
          History, probes, period,
          currentBatch, currentIndex, previousInputs, mutex, source, sourceCalls, pc,
          threads>>

(***************************************************************************)
(* Go maps as functions on the set of keys present.                        *)
(***************************************************************************)
EmptyMap == <<>>

Has(m, k) == k \in DOMAIN m

Get(m, k, zero) == IF k \in DOMAIN m THEN m[k] ELSE zero

Put(m, k, v) == [x \in (DOMAIN m) \cup {k} |-> IF x = k THEN v ELSE m[x]]

Min(a, b) == IF a < b THEN a ELSE b

(***************************************************************************)
(* State classifier.                                                       *)
(***************************************************************************)
\* a key that leaves the depth out
HashWithoutDepth(s) == s.CodeClass \o "_" \o s.SizeBucket

\* State.Hash: fmt.Sprintf("%s_%s_%d", CodeClass, SizeBucket, Depth)
Hash(s) == s.CodeClass \o "_" \o s.SizeBucket \o "_" \o ToString(s.Depth)

\* a bucket function that rounds every length down to a multiple of 10
QuantizeSizeTensOnly(size) ==
    LET sz == IF size < 0 THEN 0 ELSE size
    IN  ToString((sz \div 10) * 10)

\* a bucket function that forgets to clamp negative lengths
QuantizeSizeNoClamp(size) ==
    IF size < 100 THEN ToString((size \div 10) * 10)
    ELSE IF size < 1000 THEN ToString((size \div 100) * 100)
    ELSE IF size < 10000 THEN ToString((size \div 1000) * 1000)
    ELSE ToString((size \div 10000) * 10000)

\* QuantizeSize: clamp negatives to 0, then round down inside the decade band.
QuantizeSize(size) ==
    LET sz == IF size < 0 THEN 0 ELSE size
    IN  IF sz < 100 THEN ToString((sz \div 10) * 10)
        ELSE IF sz < 1000 THEN ToString((sz \div 100) * 100)
        ELSE IF sz < 10000 THEN ToString((sz \div 1000) * 1000)
        ELSE ToString((sz \div 10000) * 10000)

\* GetStateFromResponseFromResponseStruct
GetStateFromResponseFromResponseStruct(r, depth) ==
    [CodeClass  |-> IF r.StatusCode >= 200 /\ r.StatusCode < 300 THEN "2xx"
                    ELSE IF r.StatusCode >= 300 /\ r.StatusCode < 400 THEN "3xx"
                    ELSE IF r.StatusCode >= 400 /\ r.StatusCode < 500 THEN "4xx"
                    ELSE IF r.StatusCode >= 500 /\ r.StatusCode < 600 THEN "5xx"
                    ELSE "unknown",
     SizeBucket |-> QuantizeSize(r.ContentLength),
     Depth      |-> depth]

(***************************************************************************)
(* GetSizeHash: 64-bit FNV-1a of the body, printed with %x; "0" for an     *)
(* empty body.  The 64-bit word is held as 8 little-endian bytes so that   *)
(* the multiplication mod 2^64 stays inside TLC's integers.                *)
(***************************************************************************)
RECURSIVE Xor(_, _)
Xor(a, b) ==
    IF a = 0 THEN b
    ELSE IF b = 0 THEN a
    ELSE (((a % 2) + (b % 2)) % 2) + 2 * Xor(a \div 2, b \div 2)

\* 0xcbf29ce484222325, least significant byte first
FnvOffset64 == <<37, 35, 34, 132, 228, 156, 242, 203>>

\* 0x00000100000001b3, least significant byte first
FnvPrime64 == <<179, 1, 0, 0, 0, 1, 0, 0>>

RECURSIVE ColumnSum(_, _, _)
\* sum of h[i] * FnvPrime64[k + 1 - i] for i in 1..upto
ColumnSum(h, k, upto) ==
    IF upto = 0 THEN 0
    ELSE h[upto] * FnvPrime64[k + 1 - upto] + ColumnSum(h, k, upto - 1)

RECURSIVE MulLimbs(_, _, _)
\* bytes k..8 of h * FnvPrime64 mod 2^64, given the carry into byte k
MulLimbs(h, k, carry) ==
    IF k > 8 THEN <<>>
    ELSE LET t == ColumnSum(h, k, k) + carry
         IN  <<t % 256>> \o MulLimbs(h, k + 1, t \div 256)

RECURSIVE Fnv64a(_, _)
\* hash.Write: for each byte, h ^= b; h *= prime
Fnv64a(h, data) ==
    IF data = <<>> THEN h
    ELSE Fnv64a(MulLimbs([h EXCEPT ![1] = Xor(h[1], Head(data))], 1, 0), Tail(data))

HexDigits == <<"0", "1", "2", "3", "4", "5", "6", "7", "8", "9",
               "a", "b", "c", "d", "e", "f">>

RECURSIVE TopLimb(_, _)
\* index of the most significant non-zero byte, 0 when the number is 0
TopLimb(h, k) == IF k = 0 THEN 0 ELSE IF h[k] # 0 THEN k ELSE TopLimb(h, k - 1)

RECURSIVE HexTail(_, _)
\* two digits for each of the bytes k, k-1, ..., 1
HexTail(h, k) ==
    IF k = 0 THEN ""
    ELSE HexDigits[(h[k] \div 16) + 1] \o HexDigits[(h[k] % 16) + 1] \o HexTail(h, k - 1)

Sprintfx(h) ==
    LET top == TopLimb(h, 8)
    IN  IF top = 0 THEN "0"
        ELSE (IF h[top] \div 16 = 0 THEN "" ELSE HexDigits[(h[top] \div 16) + 1])
             \o HexDigits[(h[top] % 16) + 1] \o HexTail(h, top - 1)

GetSizeHash(data) ==
    IF Len(data) = 0 THEN "0" ELSE Sprintfx(Fnv64a(FnvOffset64, data))

(***************************************************************************)
(* Reward function.  Values in tenths: 10 is the Go value 1.0.             *)
(***************************************************************************)
\* The reward with the +0.5 of the second step decided by the content digest
\* alone (the state-hash comparison that gates it left out).
CalculateRewardNoStateGate(r, bState, bHash) ==
    LET sc == r.StatusCode
        base == IF sc < 400 \/ sc >= 500 \/ sc = 401 \/ sc = 403 THEN 10 ELSE 0
        second == IF sc >= 400 /\ sc < 500
                  THEN (IF GetSizeHash(r.Data) # bHash THEN 5 ELSE 0)
                  ELSE 10
        class == IF sc >= 200 /\ sc < 300 THEN 10
                 ELSE IF sc = 401 \/ sc = 403 THEN 8
                 ELSE IF sc = 404 THEN 0
                 ELSE IF sc >= 500 /\ sc < 600 THEN 6
                 ELSE 0
    IN  base + second + class

\* CalculateRewardFromResponseStruct
CalculateRewardFromResponseStruct(r, bState, bHash) ==
    LET sc == r.StatusCode
        \* "If not a 404, increase reward"
        base == IF sc < 400 \/ sc >= 500 \/ sc = 401 \/ sc = 403 THEN 10 ELSE 0
        \* "If it's a 404, check if it's different from baseline" ... else +1.0
        second ==
            IF sc >= 400 /\ sc < 500
            THEN LET currentState ==
                         GetStateFromResponseFromResponseStruct(r, bState.Depth)
                 IN  IF Hash(currentState) # Hash(bState)
                     THEN (IF GetSizeHash(r.Data) # bHash THEN 5 ELSE 0)
                     ELSE 0
            ELSE 10
        \* the switch on the status class
        class == IF sc >= 200 /\ sc < 300 THEN 10
                 ELSE IF sc = 401 \/ sc = 403 THEN 8
                 ELSE IF sc = 404 THEN 0
                 ELSE IF sc >= 500 /\ sc < 600 THEN 6
                 ELSE 0
    IN  base + second + class

(***************************************************************************)
(* Inputs of the reward function.                                          *)
(***************************************************************************)
StatusCodes == {100, 200, 204, 301, 399, 400, 401, 403, 404, 418, 499, 500, 503, 600}

ContentLengths == {-1, 0, 50, 139, 1005}

Bodies == {<<>>, <<97>>, <<110, 111>>}

Responses ==
    [StatusCode : StatusCodes, ContentLength : ContentLengths, Data : Bodies]

BaselineStates ==
    [CodeClass : {"4xx", "2xx"},
     SizeBucket : {QuantizeSize(l) : l \in ContentLengths},
     Depth : {1, 2}]

BaselineHashes == {GetSizeHash(b) : b \in Bodies}

ZeroResponse == [StatusCode |-> 0, ContentLength |-> 0, Data |-> <<>>]

NoCall == [op |-> "none"]

\* what ret holds when no operation has returned anything
NoResult == [none |-> TRUE]

\* no worker goroutines: one caller makes its calls one after another
NoThreads == <<>>

(***************************************************************************)
(* Bounds of the model.                                                    *)
(***************************************************************************)
MaxUpdates == 2     \* UpdateTransition calls in one behaviour

MaxWords == 3       \* length of a candidate wordlist

MaxTopN == 3        \* largest n asked of GetBestActionsForState

MaxResponses == 3   \* UpdateWithResponse calls on a controller called freely

MaxMatched == 2     \* UpdateWithMatchedInput calls on a controller called freely

MaxProbes == 102    \* probes of a scan: enough to overfill a memory of 100

MaxSource == 3      \* inputs of the provider the adapter wraps

(***************************************************************************)
(* Q-learning transition model (MarkovChain of markov.go).                 *)
(* Alpha and Gamma are in tenths.  A Q-value q is held as q * QScale; each *)
(* update adds two decimal places, so after at most MaxUpdates updates     *)
(* every value is an exact integer.                                        *)
(***************************************************************************)
Alpha == 1

Gamma == 9

QScale == 100 ^ MaxUpdates

Tokens == {"admin", "login"}

QStates ==
    {[CodeClass |-> "4xx", SizeBucket |-> "100", Depth |-> 1],
     [CodeClass |-> "2xx", SizeBucket |-> "2000", Depth |-> 1]}

\* rewards handed to UpdateTransition, in tenths
Rewards == {-10, 10}

Transitions ==
    [FromState : QStates, Action : Tokens, ToState : QStates, Reward : Rewards]

RECURSIVE SeqsUpTo(_, _)
SeqsUpTo(S, n) ==
    IF n = 0 THEN {<<>>}
    ELSE LET shorter == SeqsUpTo(S, n - 1)
         IN  shorter \cup {Append(w, t) : w \in shorter, t \in S}

\* the words of a candidate list: the tokens tried so far and one never tried
Words == Tokens \cup {"backup"}

Wordlists == SeqsUpTo(Words, MaxWords)

SetMax(S) == CHOOSE m \in S : \A v \in S : m >= v

Values(m) == {m[k] : k \in DOMAIN m}

\* the maximum of the Q-values of the next state, 0 when it has none
TrueMaxNextQ(qt, toStateKey) ==
    IF Has(qt, toStateKey) /\ DOMAIN qt[toStateKey] # {}
    THEN SetMax(Values(qt[toStateKey]))
    ELSE 0

\* maxNextQ := 0.0; for _, q := range nextQs { if q > maxNextQ { maxNextQ = q } }
MaxNextQ(qt, toStateKey) ==
    IF Has(qt, toStateKey) /\ Cardinality(DOMAIN qt[toStateKey]) > 0
    THEN SetMax({0} \cup Values(qt[toStateKey]))
    ELSE 0

\* the update with the learning rate left out: Q + (r + gamma*max - Q)
NewQNoAlpha(currentQ, r, maxNextQ) ==
    r * (QScale \div 10) + Gamma * (maxNextQ \div 10)

\* the update with the reward taken away instead of added
NewQRewardNegated(currentQ, r, maxNextQ) ==
    currentQ + Alpha * (Gamma * (maxNextQ \div 100) - r * (QScale \div 100)
                        - (currentQ \div 10))

\* newQ := currentQ + mc.Alpha*(transition.Reward + mc.Gamma*maxNextQ - currentQ)
NewQ(currentQ, r, maxNextQ) ==
    currentQ + Alpha * (r * (QScale \div 100) + Gamma * (maxNextQ \div 100)
                        - (currentQ \div 10))

\* the Q-value alpha * r of a first update, for r in tenths
AlphaTimes(r) == Alpha * r * (QScale \div 100)

\* containsString
containsString(slice, item) == \E i \in 1..Len(slice) : slice[i] = item

\* a visit count that skips the first visit of a state
CountVisitAfterFirst(sc, stateKey) ==
    IF Has(sc, stateKey) THEN Put(sc, stateKey, sc[stateKey] + 1) ELSE Put(sc, stateKey, 0)

\* mc.StateCounts[fromStateKey]++
CountVisit(sc, stateKey) == Put(sc, stateKey, Get(sc, stateKey, 0) + 1)

\* a registration that appends the action on every update
RegisterActionAlways(aa, stateKey, actionKey) ==
    Put(aa, stateKey, Append(Get(aa, stateKey, <<>>), actionKey))

\* "Update available actions if this is a new action for this state"
RegisterAction(aa, stateKey, actionKey) ==
    LET known == Get(aa, stateKey, <<>>)
    IN  IF containsString(known, actionKey) THEN aa
        ELSE Put(aa, stateKey, Append(known, actionKey))

\* the tables after UpdateTransition(transition), as one record
UpdatedChain(qt, tc, ac, sc, aa, transition) ==
    LET fromStateKey == Hash(transition.FromState)
        actionKey    == transition.Action
        toStateKey   == Hash(transition.ToState)
        \* "Initialize maps if needed"
        qt1 == IF Has(qt, fromStateKey) THEN qt ELSE Put(qt, fromStateKey, EmptyMap)
        tc1 == IF Has(tc, fromStateKey) THEN tc ELSE Put(tc, fromStateKey, EmptyMap)
        ac1 == IF Has(ac, fromStateKey) THEN ac ELSE Put(ac, fromStateKey, EmptyMap)
        ac2 == Put(ac1, fromStateKey,
                   Put(ac1[fromStateKey], actionKey,
                       Get(ac1[fromStateKey], actionKey, 0) + 1))
        tcA == IF Has(tc1[fromStateKey], actionKey) THEN tc1[fromStateKey]
               ELSE Put(tc1[fromStateKey], actionKey, EmptyMap)
        tc2 == Put(tc1, fromStateKey,
                   Put(tcA, actionKey,
                       Put(tcA[actionKey], toStateKey,
                           Get(tcA[actionKey], toStateKey, 0) + 1)))
        sc2 == CountVisit(sc, fromStateKey)
        currentQ == Get(qt1[fromStateKey], actionKey, 0)
        maxNextQ == MaxNextQ(qt1, toStateKey)
        newQ     == NewQ(currentQ, transition.Reward, maxNextQ)
        qt2 == Put(qt1, fromStateKey, Put(qt1[fromStateKey], actionKey, newQ))
        aa2 == RegisterAction(aa, fromStateKey, actionKey)
    IN  [QTable |-> qt2, TransitionCounts |-> tc2, ActionCounts |-> ac2,
         StateCounts |-> sc2, AvailableActions |-> aa2]

\* a lookup that creates the missing state entry on the way
ExpectedRewardCreating(qt, stateKey, action) ==
    [value |-> IF Has(qt, stateKey) /\ Has(qt[stateKey], action)
               THEN qt[stateKey][action] ELSE 0,
     QTable |-> IF Has(qt, stateKey) THEN qt ELSE Put(qt, stateKey, EmptyMap)]

\* GetExpectedReward: the value returned and the table it leaves
ExpectedReward(qt, stateKey, action) ==
    [value |-> IF Has(qt, stateKey)
               THEN (IF Has(qt[stateKey], action) THEN qt[stateKey][action] ELSE 0)
               ELSE 0,
     QTable |-> qt]

\* shuffleStrings: for i := len-1; i > 0; i-- { j := (i*31) % len; swap(i, j) }
\* (indices are Go's, from 0)
RECURSIVE ShuffleFrom(_, _)
ShuffleFrom(slice, i) ==
    IF i <= 0 THEN slice
    ELSE LET j == (i * 31) % Len(slice)
         IN  ShuffleFrom([slice EXCEPT ![i + 1] = slice[j + 1],
                                       ![j + 1] = slice[i + 1]], i - 1)

shuffleStrings(slice) == ShuffleFrom(slice, Len(slice) - 1)

\* a subset that is not cut to n
getRandomSubsetNoCut(slice, n) ==
    [result |-> shuffleStrings(slice), slice |-> slice]

\* getRandomSubset: what it returns and the caller's slice afterwards
getRandomSubset(slice, n) ==
    IF n >= Len(slice)
    THEN [result |-> slice, slice |-> slice]
    ELSE [result |-> SubSeq(shuffleStrings(slice), 1, n), slice |-> slice]

\* the fill candidates without the "not already in the result" test
RemainingAll(list, result) == list

\* remaining: the words of the wordlist that are not in the result
Remaining(list, result) ==
    SelectSeq(list, LAMBDA word : ~containsString(result, word))

Perms(S) ==
    {p \in [1..Cardinality(S) -> S] : \A i, j \in 1..Cardinality(S) : p[i] = p[j] => i = j}

\* the orders ties are put in by first-seen position in AvailableActions
RankedOrdersStable(qvals, known, seen) ==
    {p \in Perms(known) :
        \A i, j \in 1..Len(p) :
            i < j => \/ qvals[p[i]] > qvals[p[j]]
                     \/ /\ qvals[p[i]] = qvals[p[j]]
                        /\ \E x, y \in 1..Len(seen) :
                               seen[x] = p[i] /\ seen[y] = p[j] /\ x < y}

\* The orders sort.Slice can leave the (action, value) pairs in: the pairs are
\* collected by ranging over a map (any order) and sorted with
\* less(i, j) = value[i] > value[j], which says nothing about equal values.
RankedOrders(qvals, known, seen) ==
    {p \in Perms(known) :
        \A i, j \in 1..Len(p) : i < j => qvals[p[i]] >= qvals[p[j]]}

\* GetBestActionsForState: every (result, caller's slice afterwards) it can give
BestActionsForState(qt, aa, stateKey, list, n) ==
    IF ~Has(qt, stateKey)
    THEN {getRandomSubset(list, n)}
    ELSE LET known == {a \in DOMAIN qt[stateKey] : containsString(list, a)}
         IN  IF known = {}
             THEN {getRandomSubset(list, n)}
             ELSE {LET ranked == SubSeq(p, 1, Min(n, Len(p)))
                       fill   == shuffleStrings(Remaining(list, ranked))
                   IN  [result |-> IF Len(ranked) < n
                                   THEN ranked \o SubSeq(fill, 1,
                                                  Min(Len(fill), n - Len(ranked)))
                                   ELSE ranked,
                        slice  |-> list]
                   : p \in RankedOrders(qt[stateKey], known,
                                        Get(aa, stateKey, <<>>))}

(***************************************************************************)
(* Operations of the transition model.                                     *)
(***************************************************************************)
UpdateTransition ==
    /\ call = NoCall
    /\ updates < MaxUpdates
    /\ \E transition \in Transitions :
        LET new == UpdatedChain(QTable, TransitionCounts, ActionCounts,
                                StateCounts, AvailableActions, transition)
        IN  /\ QTable' = new.QTable
            /\ TransitionCounts' = new.TransitionCounts
            /\ ActionCounts' = new.ActionCounts
            /\ StateCounts' = new.StateCounts
            /\ AvailableActions' = new.AvailableActions
            /\ call' = [op |-> "UpdateTransition",
                        from |-> Hash(transition.FromState),
                        action |-> transition.Action,
                        to |-> Hash(transition.ToState),
                        reward |-> transition.Reward]
    /\ updates' = updates + 1
    /\ ret' = NoResult
    /\ UNCHANGED <<wordlist, rewardVars, controllerVars, scanVars, adapterVars, threads>>

GetExpectedReward ==
    /\ call = NoCall
    /\ \E state \in QStates, action \in Tokens :
        LET got == ExpectedReward(QTable, Hash(state), action)
        IN  /\ ret' = got.value
            /\ QTable' = got.QTable
            /\ call' = [op |-> "GetExpectedReward",
                        state |-> Hash(state), action |-> action]
    /\ UNCHANGED <<TransitionCounts, ActionCounts, StateCounts, AvailableActions,
                   updates, wordlist, rewardVars, controllerVars, scanVars, adapterVars,
                   threads>>

GetBestActionsForState ==
    /\ call = NoCall
    /\ \E state \in QStates, list \in Wordlists, n \in 0..MaxTopN :
        \E got \in BestActionsForState(QTable, AvailableActions, Hash(state), list, n) :
            /\ ret' = got.result
            /\ wordlist' = got.slice
            /\ call' = [op |-> "GetBestActionsForState",
                        state |-> Hash(state), wordlist |-> list, n |-> n]
    /\ UNCHANGED <<chainVars, updates, rewardVars, controllerVars, scanVars, adapterVars,
                   threads>>

(***************************************************************************)
(* The feedback controller (package ffuf): raw-valued states, the plain    *)
(* transition-probability chain and the two bounded memories.              *)
(*                                                                         *)
(* Durations are held in milliseconds, the unit mState.String prints.  A   *)
(* transition probability float64(count) / float64(total) is held as the   *)
(* pair <<count, total>>; random draws of rand.Float64() are held in       *)
(* hundredths.                                                             *)
(***************************************************************************)
\* mState{}: the zero value CurrentState has before the first UpdateChain
ZeroState ==
    [StatusCode |-> 0, ContentLength |-> 0, ContentWords |-> 0,
     ContentLines |-> 0, Duration |-> 0, IsMatch |-> FALSE]

\* the %t verb
BoolString(b) == IF b THEN "true" ELSE "false"

\* mState.String: fmt.Sprintf("%d_%d_%d_%d_%d_%t", ...)
String(s) ==
    ToString(s.StatusCode) \o "_" \o ToString(s.ContentLength) \o "_"
        \o ToString(s.ContentWords) \o "_" \o ToString(s.ContentLines) \o "_"
        \o ToString(s.Duration) \o "_" \o BoolString(s.IsMatch)

\* maxHistory: 100
maxHistory == 100

\* the literal limit of UpdateWithMatchedInput
maxMatchedInputs == 100

\* math.Min(5, ...) of top_status_codes
topStatusCodes == 5

\* the factor 0.8 of shouldUseMatchedInput, in tenths
matchProbScale == 8

\* a nil map[string][]byte
NilInput == [nil |-> TRUE]

\* the state UpdateWithResponse builds from the response and the match flag
NewState(r, isMatch) ==
    [StatusCode |-> r.StatusCode, ContentLength |-> r.ContentLength,
     ContentWords |-> r.ContentWords, ContentLines |-> r.ContentLines,
     Duration |-> r.Duration, IsMatch |-> isMatch]

\* a history that refuses the new state once it is full
AppendResponseDropNewest(history, state) ==
    LET appended == Append(history, state)
    IN  IF Len(appended) > maxHistory THEN history ELSE appended

\* append(fc.responseHistory, state), then drop the first beyond maxHistory
AppendResponse(history, state) ==
    LET appended == Append(history, state)
    IN  IF Len(appended) > maxHistory THEN Tail(appended) ELSE appended

\* a memory that evicts its second entry instead of its first
AppendMatchedInputDropSecond(matched, input) ==
    LET appended == Append(matched, input)
    IN  IF Len(appended) > maxMatchedInputs
        THEN <<Head(appended)>> \o Tail(Tail(appended))
        ELSE appended

\* append(fc.matchedInputs, input), then drop the first beyond 100
AppendMatchedInput(matched, input) ==
    LET appended == Append(matched, input)
    IN  IF Len(appended) > maxMatchedInputs THEN Tail(appended) ELSE appended

RECURSIVE SumOver(_, _)
\* total += count, over the keys of one row of StateCounts
SumOver(row, keys) ==
    IF keys = {} THEN 0
    ELSE LET k == CHOOSE x \in keys : TRUE
         IN  row[k] + SumOver(row, keys \ {k})

\* a recalculation that leaves the probabilities already stored as they are
updateProbabilitiesKeepOld(trans, counts, currentStr) ==
    LET row == Get(counts, currentStr, EmptyMap)
        total == SumOver(row, DOMAIN row)
        old == Get(trans, currentStr, EmptyMap)
    IN  IF total = 0 THEN trans
        ELSE Put(trans, currentStr,
                 [n \in (DOMAIN old) \cup (DOMAIN row) |->
                     IF n \in DOMAIN old THEN old[n] ELSE <<row[n], total>>])

\* mMarkovChain.updateProbabilitiesNoLock
updateProbabilitiesNoLock(trans, counts, currentStr) ==
    LET row == Get(counts, currentStr, EmptyMap)
        total == SumOver(row, DOMAIN row)
        old == Get(trans, currentStr, EmptyMap)
    IN  IF total = 0 THEN trans
        ELSE Put(trans, currentStr,
                 [n \in (DOMAIN old) \cup (DOMAIN row) |->
                     IF n \in DOMAIN row THEN <<row[n], total>> ELSE old[n]])

\* mMarkovChain.updateTransitionNoLock: the chain after counting one transition
updateTransitionNoLock(trans, counts, currentState, nextState) ==
    LET currentStr == String(currentState)
        nextStr == String(nextState)
        row == Get(counts, currentStr, EmptyMap)
        counted == Put(counts, currentStr, Put(row, nextStr, Get(row, nextStr, 0) + 1))
    IN  [Transitions |-> updateProbabilitiesNoLock(trans, counted, currentStr),
         StateCounts |-> counted]

\* a chain that counts every transition from the first state it saw
UpdateChainFromFirst(trans, counts, history, newState) ==
    LET updated == IF Len(history) > 0
                   THEN updateTransitionNoLock(trans, counts, history[1], newState)
                   ELSE [Transitions |-> trans, StateCounts |-> counts]
    IN  [Transitions |-> updated.Transitions,
         StateCounts |-> updated.StateCounts,
         CurrentState |-> newState,
         History |-> Append(history, newState)]

\* mMarkovChain.UpdateChain: the chain after recording newState
UpdateChain(trans, counts, history, newState) ==
    LET updated == IF Len(history) > 0
                   THEN updateTransitionNoLock(trans, counts, history[Len(history)], newState)
                   ELSE [Transitions |-> trans, StateCounts |-> counts]
    IN  [Transitions |-> updated.Transitions,
         StateCounts |-> updated.StateCounts,
         CurrentState |-> newState,
         History |-> Append(history, newState)]

\* mMarkovChain.GetTransitionProbability, <<0, 1>> standing for 0.0
GetTransitionProbability(trans, fromState, toState) ==
    LET fromStr == String(fromState)
        toStr == String(toState)
    IN  IF ~Has(trans, fromStr) THEN <<0, 1>>
        ELSE IF ~Has(trans[fromStr], toStr) THEN <<0, 1>>
        ELSE trans[fromStr][toStr]

\* a + b for probabilities held as <<numerator, denominator>>
AddProb(a, b) ==
    IF a[2] = b[2] THEN <<a[1] + b[1], a[2]>>
    ELSE IF a[1] = 0 THEN b
    ELSE IF b[1] = 0 THEN a
    ELSE <<a[1] * b[2] + b[1] * a[2], a[2] * b[2]>>

RECURSIVE SumMatchTransitions(_, _, _, _)
\* prob += GetTransitionProbability(fromState, historyState), for the first k
\* history states, those with IsMatch only
SumMatchTransitions(trans, history, fromState, k) ==
    IF k = 0 THEN <<0, 1>>
    ELSE LET before == SumMatchTransitions(trans, history, fromState, k - 1)
         IN  IF history[k].IsMatch
             THEN AddProb(before, GetTransitionProbability(trans, fromState, history[k]))
             ELSE before

\* mFeedbackController.getProbabilityOfMatchTransition
getProbabilityOfMatchTransition(trans, history, fromState) ==
    SumMatchTransitions(trans, history, fromState, Len(history))

\* the gate without its short-history branch
shouldUseMatchedInputAlwaysDraws(matched, history, trans, u) ==
    LET previousState == IF history = <<>> THEN ZeroState ELSE history[Len(history)]
        matchProb == getProbabilityOfMatchTransition(trans, history, previousState)
    IN  u * matchProb[2] * 10 < matchProb[1] * matchProbScale * 100

\* mFeedbackController.shouldUseMatchedInput, u the draw of rand.Float64()
shouldUseMatchedInput(matched, history, trans, u) ==
    IF Len(history) < 2 THEN Len(matched) > 0
    ELSE LET previousState == history[Len(history)]
             matchProb == getProbabilityOfMatchTransition(trans, history, previousState)
         IN  u * matchProb[2] * 10 < matchProb[1] * matchProbScale * 100

\* mFeedbackController.getWeightedIndex: int(rand^2 * float64(length-1)), 0-based
getWeightedIndex(length, u2) ==
    IF length <= 0 THEN 0
    ELSE (u2 * u2 * (length - 1)) \div 10000

\* mFeedbackController.selectFromMatchedInputs
selectFromMatchedInputs(matched, u2) ==
    IF Len(matched) = 0 THEN NilInput
    ELSE matched[getWeightedIndex(Len(matched), u2) + 1]

\* a selection that hands back the base input
selectAndModifyInputBase(matched, baseInput, u2) == baseInput

\* mFeedbackController.selectAndModifyInput
selectAndModifyInput(matched, baseInput, u2) ==
    LET selectedInput == selectFromMatchedInputs(matched, u2)
    IN  IF selectedInput = NilInput THEN baseInput ELSE selectedInput

\* mFeedbackController.GetNextInput without its test of the memory's length
GetNextInputUnguarded(matched, history, trans, baseInput, u, u2) ==
    IF shouldUseMatchedInput(matched, history, trans, u)
    THEN [input |-> selectAndModifyInput(matched, baseInput, u2), usedFeedback |-> TRUE]
    ELSE [input |-> NilInput, usedFeedback |-> FALSE]

\* mFeedbackController.GetNextInput: the pair it returns
GetNextInputResult(matched, history, trans, baseInput, u, u2) ==
    IF Len(matched) > 0 /\ shouldUseMatchedInput(matched, history, trans, u)
    THEN [input |-> selectAndModifyInput(matched, baseInput, u2), usedFeedback |-> TRUE]
    ELSE [input |-> NilInput, usedFeedback |-> FALSE]

RECURSIVE CountCodes(_, _)
\* statusCodes[state.StatusCode]++ over the first k states of the history
CountCodes(history, k) ==
    IF k = 0 THEN EmptyMap
    ELSE LET before == CountCodes(history, k - 1)
             code == history[k].StatusCode
         IN  Put(before, code, Get(before, code, 0) + 1)

RECURSIVE SortedByCount(_, _)
\* The orders sort.Slice can leave statusCodeList in: the list is built by
\* ranging over the map statusCodes, whose iteration order is unspecified, and
\* the comparison looks at Count only, so codes of equal count can come out in
\* either order.
SortedByCount(counts, codes) ==
    IF codes = {} THEN {<<>>}
    ELSE LET most == {c \in codes : \A d \in codes : counts[c] >= counts[d]}
         IN  UNION {{<<[Code |-> c, Count |-> counts[c]]>> \o rest :
                        rest \in SortedByCount(counts, codes \ {c})} : c \in most}

RECURSIVE SumField(_, _, _)
\* total<Field> += state.<Field> over the first k states of the history
SumField(history, field, k) ==
    IF k = 0 THEN 0 ELSE history[k][field] + SumField(history, field, k - 1)

\* matchCount++ for every state with IsMatch
MatchCount(history) == Cardinality({i \in 1..Len(history) : history[i].IsMatch})

\* The statistics of AnalyzeResponsePatterns over a history: the rollups it can
\* build.  An average float64(total) / float64(len) is held as <<total, len>>,
\* the duration total in milliseconds.
Rollups(history) ==
    LET n == Len(history)
        statusCodes == CountCodes(history, n)
    IN  {[avg_status_code |-> <<SumField(history, "StatusCode", n), n>>,
          avg_content_length |-> <<SumField(history, "ContentLength", n), n>>,
          avg_content_words |-> <<SumField(history, "ContentWords", n), n>>,
          avg_content_lines |-> <<SumField(history, "ContentLines", n), n>>,
          avg_duration_ns |-> <<SumField(history, "Duration", n), n>>,
          match_rate |-> <<MatchCount(history), n>>,
          total_responses |-> n,
          total_matches |-> MatchCount(history),
          top_status_codes |->
              SubSeq(statusCodeList, 1, Min(topStatusCodes, Len(statusCodeList)))] :
            statusCodeList \in SortedByCount(statusCodes, DOMAIN statusCodes)}

\* an analysis counting every recorded state as a match
AnalyzeResultsAllMatch(history) ==
    IF Len(history) = 0 THEN {EmptyMap}
    ELSE {[r EXCEPT !.total_matches = Len(history),
                    !.match_rate = <<Len(history), Len(history)>>] :
            r \in Rollups(history)}

\* an analysis that computes its statistics over an empty history too
AnalyzeResultsOfAnyHistory(history) == Rollups(history)

\* mFeedbackController.AnalyzeResponsePatterns: the rollups it can return
AnalyzeResults(history) ==
    IF Len(history) = 0 THEN {EmptyMap} ELSE Rollups(history)

(***************************************************************************)
(* What the callers of the controller pass in.                             *)
(***************************************************************************)
\* the two responses of TestMarkovChain
FeedbackResponses ==
    {[StatusCode |-> 200, ContentLength |-> 100, ContentWords |-> 20,
      ContentLines |-> 10, Duration |-> 50],
     [StatusCode |-> 404, ContentLength |-> 50, ContentWords |-> 10,
      ContentLines |-> 5, Duration |-> 30]}

\* inputs that led to matches: keyword FUZZ and the word tried
MatchedInputs == {[FUZZ |-> "test"], [FUZZ |-> "admin"]}

\* MockInputProvider.Value(): its current input, nil past the end
BaseInputs == {[FUZZ |-> "default"], NilInput}

\* values of rand.Float64(), in hundredths
Draws == {0, 40, 79, 80, 99}

\* the loop of TestMarkovAnalysis, its alternation i%2 running with the period
\* of the scan: the i-th response and its match flag
ScanResponse(i, per) ==
    [StatusCode |-> 200 + (i % per) * 200, ContentLength |-> 100 + i * 10,
     ContentWords |-> 20 + i * 2, ContentLines |-> 10 + i, Duration |-> 50 + i * 5]

ScanIsMatch(i, per) == i % per = 0

\* the input of the i-th match of a scan; words come round again after 50
\* periods
ScanInput(i, per) == [FUZZ |-> "word" \o ToString(i % (50 * per))]

Periods == {1, 2, 6}

(***************************************************************************)
(* The input provider adapter (MarkovInputProvider) around a wrapped       *)
(* provider that works like the MockInputProvider of the tests.  The       *)
(* adapter's mutex is a sync.Mutex: Lock proceeds only when nobody holds   *)
(* it, the caller itself included.                                         *)
(***************************************************************************)
\* batchSize: 100
batchSize == 100

\* the depth handed to NewMarkovInputProvider
depth == 1

\* MockInputProvider.Next
MockNext(src) ==
    IF src.pos < Len(src.inputs) - 1
    THEN [source |-> [src EXCEPT !.pos = src.pos + 1], ok |-> TRUE]
    ELSE [source |-> src, ok |-> FALSE]

\* MockInputProvider.Value
MockValue(src) ==
    IF src.pos >= Len(src.inputs) THEN NilInput ELSE src.inputs[src.pos + 1]

\* MockInputProvider.Reset
MockReset(src) == [src EXCEPT !.pos = 0]

\* MockInputProvider.SetPosition
MockSetPosition(src, pos) ==
    IF pos >= 0 /\ pos < Len(src.inputs) THEN [src EXCEPT !.pos = pos] ELSE src

\* the copy the adapter makes of a provider's value, key by key
CopyInputs(originalInputs) ==
    IF originalInputs = NilInput THEN EmptyMap ELSE originalInputs

\* an adapter that forgets to pass SetPosition on
SetPositionNotPassedOn(src, calls, pos) == [source |-> src, calls |-> calls]

\* mip.OriginalProvider.SetPosition(pos)
SetPositionPassedOn(src, calls, pos) ==
    [source |-> MockSetPosition(src, pos),
     calls |-> Append(calls, [op |-> "SetPosition", pos |-> pos])]

\* mip.OriginalProvider.Reset()
ResetPassedOn(src, calls) ==
    [source |-> MockReset(src), calls |-> Append(calls, [op |-> "Reset"])]

\* the inputs the provider still has after position pos: Next() succeeds
\* that many times
InputsLeft(src) ==
    IF src.pos < Len(src.inputs) - 1 THEN Len(src.inputs) - 1 - src.pos ELSE 0

\* n rounds of the fill loop that append: Next() and Value() are called n
\* times in turn, the position moves by n and the n inputs are copied
Filled(src, calls, batch, n, lastNext) ==
    [source |-> [src EXCEPT !.pos = src.pos + n],
     calls |-> calls \o [k \in 1..(2 * n) |->
                            IF k % 2 = 1 THEN [op |-> "Next"] ELSE [op |-> "Value"]]
                    \o (IF lastNext THEN <<[op |-> "Next"]>> ELSE <<>>),
     batch |-> batch \o [k \in 1..n |-> CopyInputs(src.inputs[src.pos + k + 1])]]

\* a fill that stops only when the provider has no more inputs
FillBatchUnbounded(src, calls, batch) ==
    Filled(src, calls, batch, InputsLeft(src), TRUE)

\* for len(mip.currentBatch) < mip.batchSize && mip.OriginalProvider.Next()
\* The loop appends until the batch is full or Next() fails; the failing
\* Next() is the last call, and a full batch ends the loop before Next().
FillBatch(src, calls, batch) ==
    LET room == IF Len(batch) < batchSize THEN batchSize - Len(batch) ELSE 0
        left == InputsLeft(src)
    IN  Filled(src, calls, batch, Min(room, left), left < room)

\* the body of RefreshBatch between Lock and Unlock: reset the provider,
\* fill the batch from it, reset it again
RefreshedBatch(src, calls) ==
    LET first == ResetPassedOn(src, calls)
        filled == FillBatch(first.source, first.calls, <<>>)
        last == ResetPassedOn(filled.source, filled.calls)
    IN  [source |-> last.source, calls |-> last.calls, batch |-> filled.batch]

\* for k, v := range inputs { mip.previousInputs[k] = copy of v }
StoreInputs(previous, inputs) ==
    [k \in (DOMAIN previous) \cup (DOMAIN inputs) |->
        IF k \in DOMAIN inputs THEN inputs[k] ELSE previous[k]]

\* the FUZZ value of the inputs, "" when there is none
ActionValue(inputs) == IF "FUZZ" \in DOMAIN inputs THEN inputs["FUZZ"] ELSE ""

\* the inputs of the wrapped provider: keyword FUZZ and a word
ProviderInputs == {[FUZZ |-> w] : w \in Tokens}

\* a wordlist longer than one batch
LongInputs == [k \in 1..(batchSize + 2) |-> [FUZZ |-> "admin"]]

\* the responses handed to the adapter's UpdateWithResponse
AdapterResponses ==
    {r \in Responses : /\ r.StatusCode \in {200, 404}
                       /\ r.ContentLength = 139
                       /\ r.Data = <<97>>}

\* the positions asked of SetPosition: before, inside and past the inputs
Positions == (0 - 1)..MaxSource

\* NewFeedbackController, newMarkovChain: nothing recorded, nothing remembered
ControllerFresh ==
    /\ matchedInputs = <<>>
    /\ responseHistory = <<>>
    /\ mTransitions = EmptyMap
    /\ mStateCounts = EmptyMap
    /\ CurrentState = ZeroState
    /\ History = <<>>

\* the scan loop has fed nothing yet
ScanIdle ==
    /\ probes = 0
    /\ period = 2

\* NewMarkovInputProvider around a provider of the given inputs
AdapterFresh(inputs) ==
    /\ currentBatch = <<>>
    /\ currentIndex = 0
    /\ previousInputs = EmptyMap
    /\ mutex = "unlocked"
    /\ source = [inputs |-> inputs, pos |-> 0]
    /\ sourceCalls = <<>>
    /\ pc = "idle"

\* The caller takes what the operation returned; it makes its calls one after
\* another, each on the state the one before left.
Return ==
    /\ call # NoCall
    /\ pc = "idle"
    /\ call' = NoCall
    /\ ret' = NoResult
    /\ wordlist' = <<>>
    /\ resp' = ZeroResponse
    /\ reward' = 0
    /\ sourceCalls' = <<>>
    /\ UNCHANGED <<baselineState, baselineSizeHash, chainVars, updates,
                   controllerVars, scanVars,
                   currentBatch, currentIndex, previousInputs, mutex, source, pc,
                   threads>>

Init ==
    /\ baselineState = [CodeClass |-> "4xx", SizeBucket |-> "100", Depth |-> 1]
    /\ baselineSizeHash = "0"
    /\ resp = ZeroResponse
    /\ reward = 0
    /\ QTable = EmptyMap
    /\ TransitionCounts = EmptyMap
    /\ ActionCounts = EmptyMap
    /\ StateCounts = EmptyMap
    /\ AvailableActions = EmptyMap
    /\ updates = 0
    /\ call = NoCall
    /\ ret = NoResult
    /\ wordlist = <<>>
    /\ ControllerFresh
    /\ ScanIdle
    /\ threads = NoThreads
    /\ AdapterFresh(<<>>)

Next ==
    \/ UpdateTransition
    \/ GetExpectedReward
    \/ GetBestActionsForState
    \/ Return

Spec == Init /\ [][Next]_vars

(***************************************************************************)
(* The reward function applied to every response, under every baseline.    *)
(***************************************************************************)
\* MarkovInputProvider.SetBaseline
SetBaseline ==
    /\ call = NoCall
    /\ \E bState \in BaselineStates, bHash \in BaselineHashes :
        /\ baselineState' = bState
        /\ baselineSizeHash' = bHash
        /\ call' = [op |-> "SetBaseline"]
    /\ UNCHANGED <<resp, reward, chainVars, updates, ret, wordlist,
                   controllerVars, scanVars, adapterVars, threads>>

\* reward := CalculateRewardFromResponseStruct(resp, mip.baselineState, mip.baselineSizeHash)
CalculateReward ==
    /\ call = NoCall
    /\ \E r \in Responses :
        /\ resp' = r
        /\ reward' = CalculateRewardFromResponseStruct(r, baselineState, baselineSizeHash)
        /\ call' = [op |-> "CalculateReward"]
    /\ UNCHANGED <<baselineState, baselineSizeHash, chainVars, updates, ret, wordlist,
                   controllerVars, scanVars, adapterVars, threads>>

InitReward ==
    /\ baselineState \in BaselineStates
    /\ baselineSizeHash \in BaselineHashes
    /\ resp = ZeroResponse
    /\ reward = 0
    /\ QTable = EmptyMap
    /\ TransitionCounts = EmptyMap
    /\ ActionCounts = EmptyMap
    /\ StateCounts = EmptyMap
    /\ AvailableActions = EmptyMap
    /\ updates = 0
    /\ call = NoCall
    /\ ret = NoResult
    /\ wordlist = <<>>
    /\ ControllerFresh
    /\ ScanIdle
    /\ threads = NoThreads
    /\ AdapterFresh(<<>>)

NextReward ==
    \/ SetBaseline
    \/ CalculateReward
    \/ Return

SpecReward == InitReward /\ [][NextReward]_vars

(***************************************************************************)
(* Properties of the reward function (checked under SpecReward).           *)
(***************************************************************************)
Rewarded == call.op = "CalculateReward"

Plain4xx(sc) == sc >= 400 /\ sc < 500 /\ sc # 401 /\ sc # 403

StateDiffers ==
    Hash(GetStateFromResponseFromResponseStruct(resp, baselineState.Depth))
        # Hash(baselineState)

DigestDiffers == GetSizeHash(resp.Data) # baselineSizeHash

\* the class bonus of rule 3: 2xx 1.0, 401/403 0.8, 5xx 0.6, otherwise nothing
ClassBonus(sc) ==
    IF sc >= 200 /\ sc < 300 THEN 10
    ELSE IF sc = 401 \/ sc = 403 THEN 8
    ELSE IF sc >= 500 /\ sc < 600 THEN 6
    ELSE 0

\* C1: a response whose status is outside [400,500) scores exactly 1.0 plus its
\* class bonus whatever the baseline and the body: 2.0 for 2xx, 1.0 for 3xx,
\* 1.6 for 5xx.
C1_NonClientErrorReward ==
    (Rewarded /\ ~(resp.StatusCode >= 400 /\ resp.StatusCode < 500))
        => reward = 10 + ClassBonus(resp.StatusCode)

\* C2: a 401 or 403 response scores exactly 1.8 for every baseline and body,
\* also when its state hash and its content digest both differ from the
\* baseline's.
C2_ForbiddenReward ==
    (Rewarded /\ resp.StatusCode \in {401, 403}) => reward = 18

\* C3: a 4xx response other than 401/403 scores 0.5 exactly when both its state
\* hash and its content digest differ from the baseline's, and 0.0 otherwise
\* (so 0.0 with the baseline's state hash and another digest).
C3_Plain4xxReward ==
    (Rewarded /\ Plain4xx(resp.StatusCode))
        => reward = (IF StateDiffers /\ DigestDiffers THEN 5 ELSE 0)

C3_Witness ==
    /\ Rewarded
    /\ resp.StatusCode = 404
    /\ ~StateDiffers
    /\ DigestDiffers
    /\ reward = 0

\* the place of a response in the ranking of C4, 0 for a status it does not name
Kind(r, bState, bHash) ==
    LET sc == r.StatusCode
    IN  IF sc >= 200 /\ sc < 300 THEN 6
        ELSE IF sc = 401 \/ sc = 403 THEN 5
        ELSE IF sc >= 500 /\ sc < 600 THEN 4
        ELSE IF sc >= 300 /\ sc < 400 THEN 3
        ELSE IF Plain4xx(sc)
             THEN (IF /\ Hash(GetStateFromResponseFromResponseStruct(r, bState.Depth))
                           # Hash(bState)
                      /\ GetSizeHash(r.Data) # bHash
                   THEN 2 ELSE 1)
        ELSE 0

\* C4: under one baseline, every response of a kind scores strictly more than
\* every response of a kind further down the list 2xx, 401/403, 5xx, 3xx,
\* differentiated plain 4xx, plain 4xx matching the baseline.
C4_Ranking ==
    Rewarded =>
        \A other \in Responses :
            LET mine   == Kind(resp, baselineState, baselineSizeHash)
                theirs == Kind(other, baselineState, baselineSizeHash)
            IN  (theirs > 0 /\ mine > theirs)
                    => reward > CalculateRewardFromResponseStruct(
                                    other, baselineState, baselineSizeHash)

(***************************************************************************)
(* Properties of the transition model (checked under Spec).                *)
(***************************************************************************)
\* Q-values stay exact integers at the scale QScale
QValuesExact ==
    \A s \in DOMAIN QTable : \A a \in DOMAIN QTable[s] :
        QTable[s][a] % (100 ^ (MaxUpdates - updates)) = 0

HasQValues(qt, stateKey) == Has(qt, stateKey) /\ DOMAIN qt[stateKey] # {}

Observed(qt, stateKey, action) == Has(qt, stateKey) /\ Has(qt[stateKey], action)

Updating == call = NoCall /\ call'.op = "UpdateTransition"

\* C5: a (state, action) pair never updated has expected reward 0.0, and one
\* UpdateTransition of it with reward r towards a state without Q-values (the
\* from state itself included) leaves it with expected reward alpha * r.
C5_FirstUpdateIsAlphaR ==
    [][(Updating /\ ~Observed(QTable, call'.from, call'.action)
                 /\ ~HasQValues(QTable, call'.to))
        => /\ ExpectedReward(QTable, call'.from, call'.action).value = 0
           /\ ExpectedReward(QTable', call'.from, call'.action).value
                  = AlphaTimes(call'.reward)]_vars

C5_Witness ==
    /\ call.op = "UpdateTransition"
    /\ call.from = call.to
    /\ call.reward = 10
    /\ updates = 1
    /\ ExpectedReward(QTable, call.from, call.action).value = QScale \div 10

\* C6: every UpdateTransition sets Q(from, action) to
\* oldQ + alpha * (reward + gamma * maxNextQ - oldQ) with maxNextQ the maximum
\* of the Q-values stored for the next state, 0.0 only when it has none; also
\* when all of them are negative.
C6_UpdateUsesTrueMax ==
    [][Updating
        => LET oldQ == ExpectedReward(QTable, call'.from, call'.action).value
               maxQ == TrueMaxNextQ(QTable, call'.to)
           IN  QTable'[call'.from][call'.action]
                   = oldQ + Alpha * (call'.reward * (QScale \div 100)
                                     + Gamma * (maxQ \div 100) - (oldQ \div 10))]_vars

\* C7: GetExpectedReward returns 0.0 for a state or an action never observed,
\* and a call changes neither the Q-table nor the counters nor
\* AvailableActions.
C7_ExpectedRewardReadOnly ==
    [][(call = NoCall /\ call'.op = "GetExpectedReward")
        => /\ ~Observed(QTable, call'.state, call'.action) => ret' = 0
           /\ Observed(QTable, call'.state, call'.action)
                  => ret' = QTable[call'.state][call'.action]
           /\ chainVars' = chainVars]_vars

C7_Witness ==
    /\ call.op = "GetExpectedReward"
    /\ updates > 0
    /\ ~Has(QTable, call.state)
    /\ ret = 0

Ranking == call.op = "GetBestActionsForState"

\* the known actions of the ranked state that are among the candidates
KnownCandidates ==
    IF Has(QTable, call.state)
    THEN {a \in DOMAIN QTable[call.state] : containsString(call.wordlist, a)}
    ELSE {}

Count(seq, x) == Cardinality({i \in 1..Len(seq) : seq[i] = x})

NoRepeats(seq) == \A i, j \in 1..Len(seq) : seq[i] = seq[j] => i = j

\* C8: with Q-values for the state, the result starts with the known actions
\* that are among the candidates, by descending Q-value and, for equal
\* Q-values, by first-seen order in AvailableActions, cut to topN; the ranked
\* prefix is the same on every call.
C8_RankedPrefixDeterministic ==
    (Ranking /\ KnownCandidates # {})
        => LET k == Min(call.n, Cardinality(KnownCandidates))
           IN  \E p \in RankedOrdersStable(QTable[call.state], KnownCandidates,
                                           AvailableActions[call.state]) :
                   SubSeq(ret, 1, k) = SubSeq(p, 1, k)

\* C9: for a state without Q-values the result has min(topN, len(candidates))
\* actions, each from a position of its own in the candidate list (no word is
\* returned more often than the list holds it), and neither the model nor the
\* caller's list is changed.
C9_ExplorationFallback ==
    [][(call = NoCall /\ call'.op = "GetBestActionsForState"
                      /\ ~HasQValues(QTable, call'.state))
        => /\ Len(ret') = Min(call'.n, Len(call'.wordlist))
           /\ \A w \in Words : Count(ret', w) <= Count(call'.wordlist, w)
           /\ chainVars' = chainVars
           /\ wordlist' = call'.wordlist]_vars

C9_Witness ==
    /\ Ranking
    /\ updates > 0
    /\ ~HasQValues(QTable, call.state)
    /\ call.n > 0
    /\ call.n < Len(call.wordlist)
    /\ Len(ret) = call.n

\* C10: for candidates that are distinct tokens and fewer ranked known actions
\* than topN, what follows the ranked prefix are candidates not in it: no
\* action twice, every element a candidate, min(topN, len(candidates)) elements.
C10_FillWithoutRepeats ==
    (Ranking /\ HasQValues(QTable, call.state) /\ NoRepeats(call.wordlist)
             /\ Cardinality(KnownCandidates) < call.n)
        => LET k == Cardinality(KnownCandidates)
           IN  /\ Len(ret) = Min(call.n, Len(call.wordlist))
               /\ NoRepeats(ret)
               /\ \A i \in 1..Len(ret) : containsString(call.wordlist, ret[i])
               /\ \A i \in 1..Len(ret) : (i <= k) <=> (ret[i] \in KnownCandidates)
               /\ \A i, j \in 1..k :
                      i < j => QTable[call.state][ret[i]] >= QTable[call.state][ret[j]]

C10_Witness ==
    /\ Ranking
    /\ NoRepeats(call.wordlist)
    /\ Cardinality(KnownCandidates) = 1
    /\ Len(call.wordlist) = 3
    /\ call.n = 2
    /\ Len(ret) = 2
    /\ ret[1] \in KnownCandidates
    /\ ret[2] \notin KnownCandidates

(***************************************************************************)
(* The feedback controller's operations.  SpecController calls them with   *)
(* every response, flag, input and draw of the small sets above, a few     *)
(* times; SpecMatched and SpecHistory run the scan loop long enough to      *)
(* fill the two memories past their capacity.                               *)
(***************************************************************************)
qSideVars == <<rewardVars, chainVars, updates, wordlist>>

\* mFeedbackController.UpdateWithResponse(r, isMatch)
UpdateWithResponseCall(r, isMatch) ==
    LET state == NewState(r, isMatch)
        chain == UpdateChain(mTransitions, mStateCounts, History, state)
    IN  /\ mTransitions' = chain.Transitions
        /\ mStateCounts' = chain.StateCounts
        /\ CurrentState' = chain.CurrentState
        /\ History' = chain.History
        /\ responseHistory' = AppendResponse(responseHistory, state)
        /\ call' = [op |-> "UpdateWithResponse", state |-> state]
        /\ UNCHANGED <<matchedInputs, ret, qSideVars, adapterVars, threads>>

\* mFeedbackController.UpdateWithMatchedInput(input)
UpdateWithMatchedInputCall(input) ==
    /\ matchedInputs' = AppendMatchedInput(matchedInputs, input)
    /\ call' = [op |-> "UpdateWithMatchedInput", input |-> input]
    /\ UNCHANGED <<responseHistory, mChainVars, ret, qSideVars, adapterVars, threads>>

UpdateWithResponse ==
    /\ call = NoCall
    /\ Len(History) < MaxResponses
    /\ \E r \in FeedbackResponses, isMatch \in BOOLEAN : UpdateWithResponseCall(r, isMatch)
    /\ UNCHANGED scanVars

UpdateWithMatchedInput ==
    /\ call = NoCall
    /\ Len(matchedInputs) < MaxMatched
    /\ \E input \in MatchedInputs : UpdateWithMatchedInputCall(input)
    /\ UNCHANGED scanVars

\* mFeedbackController.GetNextInput(baseInputProvider): the provider's Value()
\* is baseInput, u and u2 are the draws of the gate and of the index
GetNextInput ==
    /\ call = NoCall
    /\ \E baseInput \in BaseInputs, u \in Draws, u2 \in Draws :
        /\ ret' = GetNextInputResult(matchedInputs, responseHistory, mTransitions,
                                     baseInput, u, u2)
        /\ call' = [op |-> "GetNextInput", baseInput |-> baseInput, u |-> u, u2 |-> u2]
    /\ UNCHANGED <<controllerVars, scanVars, qSideVars, adapterVars, threads>>

\* mFeedbackController.AnalyzeResponsePatterns()
AnalyzeResponsePatterns ==
    /\ call = NoCall
    /\ \E analysis \in AnalyzeResults(responseHistory) :
        /\ ret' = analysis
        /\ call' = [op |-> "AnalyzeResponsePatterns"]
    /\ UNCHANGED <<controllerVars, scanVars, qSideVars, adapterVars, threads>>

InitController ==
    /\ baselineState = [CodeClass |-> "4xx", SizeBucket |-> "100", Depth |-> 1]
    /\ baselineSizeHash = "0"
    /\ resp = ZeroResponse
    /\ reward = 0
    /\ QTable = EmptyMap
    /\ TransitionCounts = EmptyMap
    /\ ActionCounts = EmptyMap
    /\ StateCounts = EmptyMap
    /\ AvailableActions = EmptyMap
    /\ updates = 0
    /\ call = NoCall
    /\ ret = NoResult
    /\ wordlist = <<>>
    /\ ControllerFresh
    /\ ScanIdle
    /\ threads = NoThreads
    /\ AdapterFresh(<<>>)

NextController ==
    \/ UpdateWithResponse
    \/ UpdateWithMatchedInput
    \/ GetNextInput
    \/ AnalyzeResponsePatterns
    \/ Return

SpecController == InitController /\ [][NextController]_vars

\* one more match of the scan: its input goes to the matched-input memory
ScanUpdateWithMatchedInput ==
    /\ call = NoCall
    /\ probes < MaxProbes
    /\ UpdateWithMatchedInputCall(ScanInput(probes, period))
    /\ probes' = probes + 1
    /\ UNCHANGED period

\* one more response of the scan, recorded with its flag
ScanUpdateWithResponse ==
    /\ call = NoCall
    /\ probes < MaxProbes
    /\ UpdateWithResponseCall(ScanResponse(probes, period), ScanIsMatch(probes, period))
    /\ probes' = probes + 1
    /\ UNCHANGED period

InitScan ==
    /\ baselineState = [CodeClass |-> "4xx", SizeBucket |-> "100", Depth |-> 1]
    /\ baselineSizeHash = "0"
    /\ resp = ZeroResponse
    /\ reward = 0
    /\ QTable = EmptyMap
    /\ TransitionCounts = EmptyMap
    /\ ActionCounts = EmptyMap
    /\ StateCounts = EmptyMap
    /\ AvailableActions = EmptyMap
    /\ updates = 0
    /\ call = NoCall
    /\ ret = NoResult
    /\ wordlist = <<>>
    /\ ControllerFresh
    /\ probes = 0
    /\ period \in Periods
    /\ threads = NoThreads
    /\ AdapterFresh(<<>>)

NextMatched ==
    \/ ScanUpdateWithMatchedInput
    \/ Return

SpecMatched == InitScan /\ [][NextMatched]_vars

NextHistory ==
    \/ ScanUpdateWithResponse
    \/ AnalyzeResponsePatterns
    \/ Return

SpecHistory == InitScan /\ [][NextHistory]_vars

(***************************************************************************)
(* The adapter's operations, called one after another on an adapter that   *)
(* wraps a provider of up to MaxSource inputs.                             *)
(***************************************************************************)
controllerSide == <<controllerVars, scanVars>>

\* MarkovInputProvider.Next.  With items left in the batch it serves the next
\* one and returns.  Otherwise it resets the index and calls RefreshBatch with
\* the mutex still held.
AdapterNext ==
    /\ call = NoCall
    /\ pc = "idle"
    /\ mutex = "unlocked"
    /\ call' = [op |-> "Next", index |-> currentIndex]
    /\ IF currentIndex < Len(currentBatch)
       THEN /\ currentIndex' = currentIndex + 1
            /\ ret' = [ok |-> TRUE]
            /\ UNCHANGED <<mutex, pc>>
       ELSE /\ currentIndex' = 0
            /\ mutex' = "Next"
            /\ pc' = "Next:RefreshBatch"
            /\ UNCHANGED ret
    /\ UNCHANGED <<currentBatch, previousInputs, source, sourceCalls, qSideVars, controllerSide, threads>>

\* MarkovInputProvider.RefreshBatch, called by the engine or by Next.  It
\* locks the mutex first.  Called by Next it is followed by the rest of Next:
\* serve the first item of the new batch, or ask the wrapped provider.
RefreshBatch ==
    /\ \/ call = NoCall /\ pc = "idle"
       \/ pc = "Next:RefreshBatch"
    /\ mutex = "unlocked"
    /\ LET new == RefreshedBatch(source, sourceCalls)
           after == MockNext(new.source)
       IN  /\ IF pc = "Next:RefreshBatch"
              THEN /\ UNCHANGED call
                   /\ IF Len(new.batch) > 0
                      THEN /\ currentIndex' = 1
                           /\ ret' = [ok |-> TRUE]
                           /\ source' = new.source
                           /\ sourceCalls' = new.calls
                      ELSE /\ currentIndex' = 0
                           /\ ret' = [ok |-> after.ok]
                           /\ source' = after.source
                           /\ sourceCalls' = Append(new.calls, [op |-> "Next"])
              ELSE /\ call' = [op |-> "RefreshBatch"]
                   /\ currentIndex' = 0
                   /\ source' = new.source
                   /\ sourceCalls' = new.calls
                   /\ UNCHANGED ret
           /\ currentBatch' = new.batch
    /\ mutex' = "unlocked"
    /\ pc' = "idle"
    /\ UNCHANGED <<previousInputs, qSideVars, controllerSide, threads>>

\* MarkovInputProvider.Value
AdapterValue ==
    /\ call = NoCall
    /\ pc = "idle"
    /\ mutex = "unlocked"
    /\ call' = [op |-> "Value"]
    /\ IF currentIndex > 0 /\ currentIndex <= Len(currentBatch)
       THEN /\ previousInputs' = StoreInputs(previousInputs, currentBatch[currentIndex])
            /\ ret' = currentBatch[currentIndex]
            /\ UNCHANGED sourceCalls
       ELSE /\ ret' = CopyInputs(MockValue(source))
            /\ sourceCalls' = Append(sourceCalls, [op |-> "Value"])
            /\ UNCHANGED previousInputs
    /\ UNCHANGED <<currentBatch, currentIndex, mutex, source, pc, qSideVars, controllerSide, threads>>

\* MarkovInputProvider.SetPosition(pos)
AdapterSetPosition ==
    /\ call = NoCall
    /\ pc = "idle"
    /\ mutex = "unlocked"
    /\ \E pos \in Positions :
        LET passed == SetPositionPassedOn(source, sourceCalls, pos)
        IN  /\ call' = [op |-> "SetPosition", pos |-> pos, batch |-> Len(currentBatch)]
            /\ source' = passed.source
            /\ sourceCalls' = passed.calls
    /\ currentIndex' = 0
    /\ currentBatch' = <<>>
    /\ UNCHANGED <<previousInputs, mutex, pc, ret, qSideVars, controllerSide, threads>>

\* MarkovInputProvider.Position: the wrapped provider's position, read without
\* taking the mutex
AdapterPosition ==
    /\ call = NoCall
    /\ pc = "idle"
    /\ call' = [op |-> "Position"]
    /\ ret' = [pos |-> source.pos]
    /\ sourceCalls' = Append(sourceCalls, [op |-> "Position"])
    /\ UNCHANGED <<currentBatch, currentIndex, previousInputs, mutex, source, pc,
                   qSideVars, controllerSide, threads>>

\* MarkovInputProvider.Reset
AdapterReset ==
    /\ call = NoCall
    /\ pc = "idle"
    /\ mutex = "unlocked"
    /\ call' = [op |-> "Reset", batch |-> Len(currentBatch)]
    /\ LET passed == ResetPassedOn(source, sourceCalls)
       IN  /\ source' = passed.source
           /\ sourceCalls' = passed.calls
    /\ currentIndex' = 0
    /\ currentBatch' = <<>>
    /\ previousInputs' = EmptyMap
    /\ UNCHANGED <<mutex, pc, ret, qSideVars, controllerSide, threads>>

\* MarkovInputProvider.UpdateWithResponse(inputs, resp)
AdapterUpdateWithResponse ==
    /\ call = NoCall
    /\ pc = "idle"
    /\ mutex = "unlocked"
    /\ updates < MaxUpdates
    /\ \E inputs \in ProviderInputs, r \in AdapterResponses :
        LET currentState == GetStateFromResponseFromResponseStruct(r, depth)
            transition ==
                [FromState |-> baselineState,
                 Action |-> ActionValue(inputs),
                 ToState |-> currentState,
                 Reward |-> CalculateRewardFromResponseStruct(r, baselineState,
                                                              baselineSizeHash)]
            new == UpdatedChain(QTable, TransitionCounts, ActionCounts,
                                StateCounts, AvailableActions, transition)
        IN  /\ call' = [op |-> "UpdateWithResponse", inputs |-> inputs,
                        from |-> Hash(transition.FromState),
                        to |-> Hash(currentState),
                        reward |-> transition.Reward]
            /\ QTable' = new.QTable
            /\ TransitionCounts' = new.TransitionCounts
            /\ ActionCounts' = new.ActionCounts
            /\ StateCounts' = new.StateCounts
            /\ AvailableActions' = new.AvailableActions
    /\ updates' = updates + 1
    /\ UNCHANGED <<rewardVars, ret, wordlist, adapterVars, controllerSide, threads>>

InitAdapter ==
    /\ baselineState = [CodeClass |-> "4xx", SizeBucket |-> "100", Depth |-> depth]
    /\ baselineSizeHash = "0"
    /\ resp = ZeroResponse
    /\ reward = 0
    /\ QTable = EmptyMap
    /\ TransitionCounts = EmptyMap
    /\ ActionCounts = EmptyMap
    /\ StateCounts = EmptyMap
    /\ AvailableActions = EmptyMap
    /\ updates = 0
    /\ call = NoCall
    /\ ret = NoResult
    /\ wordlist = <<>>
    /\ ControllerFresh
    /\ ScanIdle
    /\ threads = NoThreads
    /\ \E inputs \in SeqsUpTo(ProviderInputs, MaxSource) \cup {LongInputs} :
        AdapterFresh(inputs)

NextAdapter ==
    \/ AdapterNext
    \/ RefreshBatch
    \/ AdapterValue
    \/ AdapterSetPosition
    \/ AdapterPosition
    \/ AdapterReset
    \/ AdapterUpdateWithResponse
    \/ Return

\* An operation that can take its next step takes it.  Every step of the
\* adapter changes the caller's record or position.
SpecAdapter == InitAdapter /\ [][NextAdapter]_vars /\ WF_<<call, pc>>(NextAdapter)

(***************************************************************************)
(* Workers.  The engine's workers call into one transition model and one   *)
(* adapter at the same time.  threads[w] holds the operation worker w is   *)
(* in, the step it has reached, the locks it holds ("model" and "adapter"  *)
(* exclusively, "model:R" shared) and what it has read so far.  A step is  *)
(* what a worker does between two points where another worker can run.     *)
(***************************************************************************)
\* the workers of the engine
Workers == {"w1", "w2"}

\* a worker between two calls
IdleThread == [op |-> "none", pc |-> "idle", held |-> {}, arg |-> <<>>, local |-> <<>>]

\* a Lock that does not wait for anybody
CanLockUnguarded(ths, lock) == TRUE

\* sync.Mutex.Lock, sync.RWMutex.Lock: proceeds when nobody holds the lock,
\* shared or exclusive
CanLock(ths, lock) ==
    \A t \in DOMAIN ths : lock \notin ths[t].held /\ (lock \o ":R") \notin ths[t].held

\* sync.RWMutex.RLock: proceeds when nobody holds the lock exclusively
CanRLock(ths, lock) == \A t \in DOMAIN ths : lock \notin ths[t].held

\* the transitions the workers report: one state, one action, two rewards
LockTransitions ==
    {t \in Transitions : /\ t.FromState.CodeClass = "4xx"
                          /\ t.ToState.CodeClass = "2xx"
                          /\ t.Action = "admin"}

\* MarkovChain.UpdateTransition, from mc.mutex.Lock() to the maps being ready:
\* called by a worker, or by the adapter's AddTransition with the adapter's
\* mutex held.  What the update will write is computed from the tables as
\* they are read here.
UpdateTransitionLock(w) ==
    /\ threads[w].pc \in {"idle", "AddTransition"}
    /\ CanLock(threads, "model")
    /\ threads[w].pc = "idle" => updates < MaxUpdates
    /\ \E t \in IF threads[w].pc = "idle" THEN LockTransitions ELSE {threads[w].arg} :
        threads' = [threads EXCEPT ![w] =
            [op |-> IF @.op = "none" THEN "UpdateTransition" ELSE @.op,
             pc |-> "counts",
             held |-> @.held \cup {"model"},
             arg |-> t,
             local |-> UpdatedChain(QTable, TransitionCounts, ActionCounts,
                                    StateCounts, AvailableActions, t)]]
    /\ updates' = IF threads[w].pc = "idle" THEN updates + 1 ELSE updates
    /\ UNCHANGED <<rewardVars, chainVars, call, ret, wordlist, controllerVars, scanVars,
                   adapterVars>>

\* MarkovChain.UpdateTransition: ActionCounts, TransitionCounts, StateCounts
UpdateTransitionCounts(w) ==
    /\ threads[w].pc = "counts"
    /\ ActionCounts' = threads[w].local.ActionCounts
    /\ TransitionCounts' = threads[w].local.TransitionCounts
    /\ StateCounts' = threads[w].local.StateCounts
    /\ threads' = [threads EXCEPT ![w].pc = "q"]
    /\ UNCHANGED <<rewardVars, QTable, AvailableActions, callVars, controllerVars,
                   scanVars, adapterVars>>

\* MarkovChain.UpdateTransition: the Q-value and the available actions, then
\* the deferred Unlock
UpdateTransitionQ(w) ==
    /\ threads[w].pc = "q"
    /\ QTable' = threads[w].local.QTable
    /\ AvailableActions' = threads[w].local.AvailableActions
    /\ threads' = [threads EXCEPT ![w] =
            IF "adapter" \in @.held
            THEN [@ EXCEPT !.pc = "Unlock", !.held = {"adapter"}, !.local = <<>>]
            ELSE IdleThread]
    /\ UNCHANGED <<rewardVars, TransitionCounts, ActionCounts, StateCounts, callVars,
                   controllerVars, scanVars, adapterVars>>

\* MarkovChain.GetExpectedReward: mc.mutex.RLock()
GetExpectedRewardRLock(w) ==
    /\ threads[w].pc = "idle"
    /\ CanRLock(threads, "model")
    /\ \E t \in {[FromState |-> x.FromState, Action |-> x.Action] : x \in LockTransitions} :
        threads' = [threads EXCEPT ![w] =
            [op |-> "GetExpectedReward", pc |-> "read", held |-> {"model:R"},
             arg |-> t, local |-> <<>>]]
    /\ UNCHANGED <<rewardVars, chainVars, callVars, controllerVars, scanVars, adapterVars>>

\* MarkovChain.GetExpectedReward: the lookup, then the deferred RUnlock
GetExpectedRewardRead(w) ==
    /\ threads[w].pc = "read"
    /\ ret' = [value |-> ExpectedReward(QTable, Hash(threads[w].arg.FromState),
                                        threads[w].arg.Action)]
    /\ threads' = [threads EXCEPT ![w] = IdleThread]
    /\ UNCHANGED <<rewardVars, chainVars, updates, call, wordlist, controllerVars,
                   scanVars, adapterVars>>

\* MarkovInputProvider.UpdateWithResponse, from mip.mutex.Lock() to the call of
\* mip.AddTransition
AdapterLock(w) ==
    /\ threads[w].pc = "idle"
    /\ updates < MaxUpdates
    /\ mutex = "unlocked"
    /\ CanLock(threads, "adapter")
    /\ \E r \in AdapterResponses :
        threads' = [threads EXCEPT ![w] =
            [op |-> "UpdateWithResponse", pc |-> "AddTransition", held |-> {"adapter"},
             arg |-> [FromState |-> baselineState,
                      Action |-> ActionValue([FUZZ |-> "admin"]),
                      ToState |-> GetStateFromResponseFromResponseStruct(r, depth),
                      Reward |-> CalculateRewardFromResponseStruct(r, baselineState,
                                                                   baselineSizeHash)],
             local |-> <<>>]]
    /\ mutex' = "UpdateWithResponse"
    /\ updates' = updates + 1
    /\ UNCHANGED <<rewardVars, chainVars, call, ret, wordlist, controllerVars, scanVars,
                   currentBatch, currentIndex, previousInputs, source, sourceCalls, pc>>

\* MarkovInputProvider.UpdateWithResponse: the deferred mip.mutex.Unlock()
AdapterUnlock(w) ==
    /\ threads[w].pc = "Unlock"
    /\ threads' = [threads EXCEPT ![w] = IdleThread]
    /\ mutex' = "unlocked"
    /\ UNCHANGED <<rewardVars, chainVars, callVars, controllerVars, scanVars,
                   currentBatch, currentIndex, previousInputs, source, sourceCalls, pc>>

InitLocks ==
    /\ baselineState = [CodeClass |-> "4xx", SizeBucket |-> "100", Depth |-> depth]
    /\ baselineSizeHash = "0"
    /\ resp = ZeroResponse
    /\ reward = 0
    /\ QTable = EmptyMap
    /\ TransitionCounts = EmptyMap
    /\ ActionCounts = EmptyMap
    /\ StateCounts = EmptyMap
    /\ AvailableActions = EmptyMap
    /\ updates = 0
    /\ call = NoCall
    /\ ret = NoResult
    /\ wordlist = <<>>
    /\ ControllerFresh
    /\ ScanIdle
    /\ AdapterFresh(<<[FUZZ |-> "admin"]>>)
    /\ threads = [w \in Workers |-> IdleThread]

NextLocks ==
    \/ \E w \in Workers : UpdateTransitionLock(w)
    \/ \E w \in Workers : UpdateTransitionCounts(w)
    \/ \E w \in Workers : UpdateTransitionQ(w)
    \/ \E w \in Workers : GetExpectedRewardRLock(w)
    \/ \E w \in Workers : GetExpectedRewardRead(w)
    \/ \E w \in Workers : AdapterLock(w)
    \/ \E w \in Workers : AdapterUnlock(w)

SpecLocks == InitLocks /\ [][NextLocks]_vars

(***************************************************************************)
(* Workers calling into one feedback controller at the same time.  The     *)
(* controller has no lock of its own; only the chain's UpdateChain runs     *)
(* under a lock, from its first statement to its return.  A worker that     *)
(* appends to a slice of the controller reads the slice in one step and     *)
(* stores the longer slice in a later one; a worker that draws from the     *)
(* chain's random source is inside rand.Float64 between two steps.          *)
(***************************************************************************)
\* mFeedbackController.UpdateWithResponse: the state is built and
\* fc.chain.UpdateChain(state) runs under the chain's lock
UpdateChainStep(w) ==
    /\ threads[w].pc = "idle"
    /\ probes < MaxResponses
    /\ CanLock(threads, "chain")
    /\ \E r \in FeedbackResponses :
        LET state == NewState(r, r.StatusCode = 200)
            chain == UpdateChain(mTransitions, mStateCounts, History, state)
        IN  /\ mTransitions' = chain.Transitions
            /\ mStateCounts' = chain.StateCounts
            /\ CurrentState' = chain.CurrentState
            /\ History' = chain.History
            /\ threads' = [threads EXCEPT ![w] =
                    [op |-> "UpdateWithResponse", pc |-> "append", held |-> {},
                     arg |-> state, local |-> <<>>]]
    /\ probes' = probes + 1
    /\ UNCHANGED <<qSideVars, call, ret, matchedInputs, responseHistory, period,
                   adapterVars>>

\* append(fc.responseHistory, state): the slice is read
ReadHistory(w) ==
    /\ threads[w].pc = "append"
    /\ threads' = [threads EXCEPT ![w].pc = "store", ![w].local = responseHistory]
    /\ UNCHANGED <<qSideVars, call, ret, controllerVars, scanVars, adapterVars>>

\* fc.responseHistory = ...: the slice with the state appended is stored, cut
\* to maxHistory
StoreHistory(w) ==
    /\ threads[w].pc = "store"
    /\ responseHistory' = AppendResponse(threads[w].local, threads[w].arg)
    /\ threads' = [threads EXCEPT ![w] = IdleThread]
    /\ UNCHANGED <<qSideVars, call, ret, matchedInputs, mChainVars, scanVars, adapterVars>>

\* mFeedbackController.UpdateWithMatchedInput: append(fc.matchedInputs, input),
\* the slice is read
ReadMatched(w) ==
    /\ threads[w].pc = "idle"
    /\ Len(matchedInputs) < MaxMatched
    /\ \E input \in MatchedInputs :
        threads' = [threads EXCEPT ![w] =
            [op |-> "UpdateWithMatchedInput", pc |-> "storeMatched", held |-> {},
             arg |-> input, local |-> matchedInputs]]
    /\ UNCHANGED <<qSideVars, call, ret, controllerVars, scanVars, adapterVars>>

\* fc.matchedInputs = ...: the slice with the input appended is stored
StoreMatched(w) ==
    /\ threads[w].pc = "storeMatched"
    /\ matchedInputs' = AppendMatchedInput(threads[w].local, threads[w].arg)
    /\ threads' = [threads EXCEPT ![w] = IdleThread]
    /\ UNCHANGED <<qSideVars, call, ret, responseHistory, mChainVars, scanVars,
                   adapterVars>>

\* mFeedbackController.GetNextInput up to its first draw: with an empty memory
\* it returns (nil, false); with a history shorter than 2 the gate passes
\* without a draw and getWeightedIndex draws; otherwise the gate draws
GetNextInputGate(w) ==
    /\ threads[w].pc = "idle"
    /\ IF Len(matchedInputs) = 0
       THEN /\ ret' = [input |-> NilInput, usedFeedback |-> FALSE]
            /\ UNCHANGED threads
       ELSE /\ threads' = [threads EXCEPT ![w] =
                    [op |-> "GetNextInput",
                     pc |-> IF Len(responseHistory) < 2 THEN "Float64:index"
                            ELSE "Float64:gate",
                     held |-> {}, arg |-> <<>>,
                     local |-> [history |-> responseHistory, trans |-> mTransitions]]]
            /\ UNCHANGED ret
    /\ UNCHANGED <<qSideVars, call, controllerVars, scanVars, adapterVars>>

\* shouldUseMatchedInput: fc.chain.rand.Float64() returns the gate's draw
DrawGate(w) ==
    /\ threads[w].pc = "Float64:gate"
    /\ \E u \in Draws :
        IF shouldUseMatchedInput(matchedInputs, threads[w].local.history,
                                 threads[w].local.trans, u)
        THEN /\ threads' = [threads EXCEPT ![w].pc = "Float64:index"]
             /\ UNCHANGED ret
        ELSE /\ threads' = [threads EXCEPT ![w] = IdleThread]
             /\ ret' = [input |-> NilInput, usedFeedback |-> FALSE]
    /\ UNCHANGED <<qSideVars, call, controllerVars, scanVars, adapterVars>>

\* getWeightedIndex: fc.chain.rand.Float64() returns the index's draw, and
\* GetNextInput returns the input selected
DrawIndex(w) ==
    /\ threads[w].pc = "Float64:index"
    /\ \E baseInput \in BaseInputs, u2 \in Draws :
        ret' = [input |-> selectAndModifyInput(matchedInputs, baseInput, u2),
                usedFeedback |-> TRUE]
    /\ threads' = [threads EXCEPT ![w] = IdleThread]
    /\ UNCHANGED <<qSideVars, call, controllerVars, scanVars, adapterVars>>

\* mMarkovChain.UpdateTransition(currentState, nextState): it locks the chain's
\* mutex, counts the transition and calls updateProbabilities with the mutex
\* held; updateProbabilities locks the mutex before it recalculates
ChainUpdateTransition(w) ==
    /\ \/ /\ threads[w].pc = "idle"
          /\ CanLock(threads, "chain")
          /\ \E r \in FeedbackResponses :
              LET currentStr == String(NewState(r, FALSE))
                  nextStr == String(NewState(r, TRUE))
                  row == Get(mStateCounts, currentStr, EmptyMap)
              IN  /\ mStateCounts' =
                         Put(mStateCounts, currentStr,
                             Put(row, nextStr, Get(row, nextStr, 0) + 1))
                  /\ threads' = [threads EXCEPT ![w] =
                         [op |-> "UpdateTransition", pc |-> "updateProbabilities",
                          held |-> {"chain"}, arg |-> currentStr, local |-> <<>>]]
          /\ UNCHANGED mTransitions
       \/ /\ threads[w].pc = "updateProbabilities"
          /\ CanLock(threads, "chain")
          /\ mTransitions' = updateProbabilitiesNoLock(mTransitions, mStateCounts,
                                                       threads[w].arg)
          /\ threads' = [threads EXCEPT ![w] = IdleThread]
          /\ UNCHANGED mStateCounts
    /\ UNCHANGED <<qSideVars, call, ret, matchedInputs, responseHistory, CurrentState,
                   History, scanVars, adapterVars>>

InitWorkers ==
    /\ baselineState = [CodeClass |-> "4xx", SizeBucket |-> "100", Depth |-> 1]
    /\ baselineSizeHash = "0"
    /\ resp = ZeroResponse
    /\ reward = 0
    /\ QTable = EmptyMap
    /\ TransitionCounts = EmptyMap
    /\ ActionCounts = EmptyMap
    /\ StateCounts = EmptyMap
    /\ AvailableActions = EmptyMap
    /\ updates = 0
    /\ call = NoCall
    /\ ret = NoResult
    /\ wordlist = <<>>
    /\ ControllerFresh
    /\ ScanIdle
    /\ AdapterFresh(<<>>)
    /\ threads = [w \in Workers |-> IdleThread]

NextWorkers ==
    \/ \E w \in Workers : UpdateChainStep(w)
    \/ \E w \in Workers : ReadHistory(w)
    \/ \E w \in Workers : StoreHistory(w)
    \/ \E w \in Workers : ReadMatched(w)
    \/ \E w \in Workers : StoreMatched(w)
    \/ \E w \in Workers : GetNextInputGate(w)
    \/ \E w \in Workers : DrawGate(w)
    \/ \E w \in Workers : DrawIndex(w)
    \/ \E w \in Workers : ChainUpdateTransition(w)

SpecWorkers == InitWorkers /\ [][NextWorkers]_vars

(***************************************************************************)
(* The state classifier on its own: QuantizeSize applied to a length and   *)
(* State.Hash applied to two states the classifier can build.              *)
(***************************************************************************)
\* the content lengths tried: the lengths of the table test, every length
\* around a band's edge, negative lengths and the ends of the 32-bit range
Lengths ==
    ((0 - 12)..130) \cup (985..1015) \cup (9985..10015) \cup (19990..20010)
        \cup {0 - 2147483640, 0 - 1005, 99995, 100005, 2147483647}

\* the depths a provider is built with
Depths == {0, 1, 2, 10}

\* the states GetStateFromResponseFromResponseStruct builds
ClassifierStates ==
    {GetStateFromResponseFromResponseStruct(
         [StatusCode |-> sc, ContentLength |-> len, Data |-> <<>>], d) :
         sc \in {100, 200, 301, 404, 500}, len \in {0 - 1, 5, 15, 105, 1005, 10005},
         d \in Depths}

\* bucket := QuantizeSize(size)
QuantizeSizeCall ==
    /\ call = NoCall
    /\ \E size \in Lengths :
        /\ call' = [op |-> "QuantizeSize", size |-> size]
        /\ ret' = [bucket |-> QuantizeSize(size)]
    /\ UNCHANGED <<rewardVars, chainVars, updates, wordlist, controllerVars, scanVars,
                   adapterVars, threads>>

\* state1.Hash() and state2.Hash()
HashCall ==
    /\ call = NoCall
    /\ \E s1, s2 \in ClassifierStates :
        /\ call' = [op |-> "Hash", state1 |-> s1, state2 |-> s2]
        /\ ret' = [hash1 |-> Hash(s1), hash2 |-> Hash(s2)]
    /\ UNCHANGED <<rewardVars, chainVars, updates, wordlist, controllerVars, scanVars,
                   adapterVars, threads>>

NextClassifier ==
    \/ QuantizeSizeCall
    \/ HashCall
    \/ Return

SpecClassifier == Init /\ [][NextClassifier]_vars

(***************************************************************************)
(* Properties of the two bounded memories (checked under SpecMatched and   *)
(* SpecHistory).                                                           *)
(***************************************************************************)
\* the entries a memory of the given capacity should hold after n insertions:
\* the numbers, counted from 0, of the insertions still remembered
Remembered(n, capacity) == [k \in 1..Min(n, capacity) |-> n - Min(n, capacity) + k - 1]

\* C11: after any number of UpdateWithMatchedInput calls the matched-input
\* memory holds at most 100 entries, and they are the most recently inserted
\* inputs in insertion order; the 101st insertion removes the first-inserted
\* entry and nothing else.
C11_MatchedMemoryFifo ==
    LET kept == Remembered(probes, 100)
    IN  /\ Len(matchedInputs) <= 100
        /\ Len(matchedInputs) = Len(kept)
        /\ \A k \in 1..Len(kept) : matchedInputs[k] = ScanInput(kept[k], period)

C11_Witness ==
    /\ call.op = "UpdateWithMatchedInput"
    /\ probes = 101
    /\ Len(matchedInputs) = 100
    /\ matchedInputs[1] = ScanInput(1, period)
    /\ matchedInputs[100] = ScanInput(100, period)
    /\ ScanInput(100, period) = ScanInput(0, period)

\* C12: after n UpdateWithResponse calls the response history holds exactly
\* min(n, 100) states, those of the most recent calls in call order, each with
\* the match flag it was recorded with.
C12_ResponseHistoryFifo ==
    LET kept == Remembered(probes, 100)
    IN  /\ Len(responseHistory) = Min(probes, 100)
        /\ \A k \in 1..Len(kept) :
               /\ responseHistory[k].StatusCode = ScanResponse(kept[k], period).StatusCode
               /\ responseHistory[k].ContentLength = ScanResponse(kept[k], period).ContentLength
               /\ responseHistory[k].ContentWords = ScanResponse(kept[k], period).ContentWords
               /\ responseHistory[k].ContentLines = ScanResponse(kept[k], period).ContentLines
               /\ responseHistory[k].Duration = ScanResponse(kept[k], period).Duration
               /\ responseHistory[k].IsMatch = ScanIsMatch(kept[k], period)

C12_Witness ==
    /\ call.op = "UpdateWithResponse"
    /\ probes = 102
    /\ Len(responseHistory) = 100
    /\ responseHistory[1].ContentLength = ScanResponse(2, period).ContentLength
    /\ responseHistory[100] = call.state
    /\ \E i, j \in 1..100 : responseHistory[i].IsMatch /\ ~responseHistory[j].IsMatch

\* the flags of the history, oldest first
Flags(history) == [k \in 1..Len(history) |-> history[k].IsMatch]

Analyzed == call.op = "AnalyzeResponsePatterns"

\* C16: for a non-empty history the rollup has total_responses equal to the
\* number of states in the history (never more than 100), total_matches equal
\* to the number of them flagged as matches, and match_rate their quotient;
\* flags [true,false,true,false,true] give 5, 3 and 0.6.
C16_RollupTotals ==
    (Analyzed /\ responseHistory # <<>>)
        => /\ ret.total_responses = Len(responseHistory)
           /\ ret.total_responses <= 100
           /\ ret.total_matches = Len(SelectSeq(Flags(responseHistory), LAMBDA f : f))
           /\ ret.match_rate[1] * ret.total_responses = ret.total_matches * ret.match_rate[2]
           /\ ret.match_rate[2] > 0
           /\ Flags(responseHistory) = <<TRUE, FALSE, TRUE, FALSE, TRUE>>
                  => /\ ret.total_responses = 5
                     /\ ret.total_matches = 3
                     /\ ret.match_rate[1] * 10 = 6 * ret.match_rate[2]

C16_Witness ==
    /\ Analyzed
    /\ Flags(responseHistory) = <<TRUE, FALSE, TRUE, FALSE, TRUE>>
    /\ ret.total_responses = 5
    /\ ret.total_matches = 3

(***************************************************************************)
(* Properties of the controller's queries (checked under SpecController).  *)
(***************************************************************************)
Selecting == call.op = "GetNextInput"

\* the answer "continue with the normal input provider"
NoFeedback == [input |-> NilInput, usedFeedback |-> FALSE]

\* the exploitation gate would pass the draw u on the recorded transitions
GatePasses(u) ==
    LET matchProb == getProbabilityOfMatchTransition(mTransitions, responseHistory,
                                                     responseHistory[Len(responseHistory)])
    IN  u * matchProb[2] * 10 < matchProb[1] * 8 * 100

\* C13: whenever the matched-input memory is empty GetNextInput returns
\* (nil, false), whatever the response history, the transition table and the
\* random draws.
C13_EmptyMemoryNoFeedback ==
    (Selecting /\ matchedInputs = <<>>) => ret = NoFeedback

C13_Witness ==
    /\ Selecting
    /\ matchedInputs = <<>>
    /\ Len(responseHistory) >= 2
    /\ GatePasses(call.u)
    /\ call.baseInput # NilInput
    /\ ret = NoFeedback

\* C14: recording one response as a match on a fresh controller puts the probed
\* input into the matched-input memory, so that the rollup has match_rate 1.0
\* and a following GetNextInput answers with that input and usedFeedback true.
C14_MatchIsRemembered ==
    [][(/\ call = NoCall
        /\ History = <<>>
        /\ matchedInputs = <<>>
        /\ call'.op = "UpdateWithResponse"
        /\ call'.state.IsMatch)
           => /\ Len(matchedInputs') = 1
              /\ \A analysis \in AnalyzeResults(responseHistory') :
                     analysis.match_rate[1] = analysis.match_rate[2]
              /\ \A baseInput \in BaseInputs, u \in Draws, u2 \in Draws :
                     LET next == GetNextInputResult(matchedInputs', responseHistory',
                                                    mTransitions', baseInput, u, u2)
                     IN  next.usedFeedback /\ next.input = matchedInputs'[1]]_vars

C17_AnalyzeReadOnly ==
    [][(call = NoCall /\ call'.op = "AnalyzeResponsePatterns")
           => /\ responseHistory = <<>> => DOMAIN ret' = {}
              /\ responseHistory' = responseHistory
              /\ matchedInputs' = matchedInputs
              /\ mTransitions' = mTransitions
              /\ mStateCounts' = mStateCounts
              /\ CurrentState' = CurrentState
              /\ History' = History]_vars

C17_Witness ==
    /\ Analyzed
    /\ responseHistory = <<>>
    /\ matchedInputs # <<>>
    /\ DOMAIN ret = {}

\* the place of the first state of the history with the given status code
FirstObserved(history, code) ==
    CHOOSE i \in 1..Len(history) :
        /\ history[i].StatusCode = code
        /\ \A j \in 1..(i - 1) : history[j].StatusCode # code

\* how many states of the history have the given status code
Frequency(history, code) ==
    Cardinality({i \in 1..Len(history) : history[i].StatusCode = code})

\* C18: top_status_codes holds at most 5 distinct status codes in descending
\* frequency, equal frequencies in the order the codes were first observed in
\* the history, so that it is a function of the history alone.
C18_TopStatusCodesDeterministic ==
    (Analyzed /\ responseHistory # <<>>)
        => LET top == ret.top_status_codes
           IN  /\ Len(top) <= 5
               /\ \A i \in 1..Len(top) :
                      top[i].Count = Frequency(responseHistory, top[i].Code)
               /\ \A i, j \in 1..Len(top) :
                      i < j => \/ top[i].Count > top[j].Count
                               \/ /\ top[i].Count = top[j].Count
                                  /\ FirstObserved(responseHistory, top[i].Code)
                                         < FirstObserved(responseHistory, top[j].Code)

(***************************************************************************)
(* Properties of the adapter (checked under SpecAdapter).                  *)
(***************************************************************************)
\* the caller of Next has its answer
NextReturned == call.op = "Next" /\ pc = "idle"

\* C19: every call to the adapter's Next() returns: with unserved items in the
\* batch it serves the next one, and with the batch exhausted (the first call
\* on a new adapter included) it refills the batch and returns with the first
\* refilled item active, or with the wrapped provider's answer when the refill
\* yields nothing.
C19_NextReturns == (call.op = "Next") ~> NextReturned

\* the learned tables and the baseline of the adapter
Learned ==
    <<QTable, TransitionCounts, ActionCounts, StateCounts, AvailableActions,
      baselineState, baselineSizeHash>>

\* C20: when the adapter's Reset() or SetPosition(p) has returned, the working
\* batch is empty, the batch index is 0 and the wrapped provider has received
\* exactly that Reset() or SetPosition(p) call; the Q-table, the counters and
\* the baseline are as they were.
C20_ResetClearsBatchOnly ==
    [][(call = NoCall /\ call'.op \in {"Reset", "SetPosition"})
           => /\ pc' = "idle"
              /\ currentBatch' = <<>>
              /\ currentIndex' = 0
              /\ sourceCalls' = IF call'.op = "Reset"
                                THEN <<[op |-> "Reset"]>>
                                ELSE <<[op |-> "SetPosition", pos |-> call'.pos]>>
              /\ source'.inputs = source.inputs
              /\ call'.op = "Reset" => source'.pos = 0
              /\ (call'.op = "SetPosition" /\ call'.pos \in 0..(Len(source.inputs) - 1))
                     => source'.pos = call'.pos
              /\ Learned' = Learned]_vars

C20_Witness ==
    /\ call.op = "SetPosition"
    /\ call.batch > 0
    /\ call.pos = 1
    /\ source.pos = 1
    /\ currentBatch = <<>>
    /\ currentIndex = 0
    /\ QTable # EmptyMap

(***************************************************************************)
(* Resuming a scan through the adapter (checked under SpecAdapter).        *)
(***************************************************************************)
\* the engine asks for a new batch
Refilling == call = NoCall /\ call'.op = "RefreshBatch"

\* the candidates of the wrapped provider from position p onward, as the
\* adapter's batch loop collects them: the one at p is the provider's current
\* value, the loop's first Next moves on to p + 1
CandidatesAfter(src, p) ==
    [k \in 1..(Len(src.inputs) - 1 - p) |-> src.inputs[p + 1 + k]]

\* C21: a batch refill keeps the wrapped provider's place: the provider is not
\* moved back and the new batch holds the candidates that follow the position
\* the provider stood at.
C21_RefillKeepsPosition ==
    [][Refilling =>
        /\ source'.pos >= source.pos
        /\ currentBatch' = CandidatesAfter(source, source.pos)]_vars

(***************************************************************************)
(* Properties of the state classifier (checked under SpecClassifier).      *)
(***************************************************************************)
Quantized == call.op = "QuantizeSize"

\* the width of the band a length lies in
BandStep(n) ==
    IF n < 100 THEN 10 ELSE IF n < 1000 THEN 100 ELSE IF n < 10000 THEN 1000 ELSE 10000

\* the reference bucket of a length: the largest multiple of the band's width
\* that is not above the length, 0 for a negative length
ReferenceBucket(n) == IF n < 0 THEN 0 ELSE n - (n % BandStep(n))

\* the table of the boundary test
BucketTable ==
    {<<0, "0">>, <<5, "0">>, <<15, "10">>, <<95, "90">>, <<105, "100">>, <<995, "900">>,
     <<1005, "1000">>, <<9995, "9000">>, <<10005, "10000">>}

\* C22: QuantizeSize gives every length the decimal text of its reference
\* bucket, and the lengths of the boundary table the buckets of the table.
C22_QuantizeSizeIsReference ==
    Quantized =>
        /\ ret.bucket = ToString(ReferenceBucket(call.size))
        /\ \A row \in BucketTable : call.size = row[1] => ret.bucket = row[2]

C22_Witness ==
    /\ Quantized
    /\ call.size = 10005
    /\ ret.bucket = "10000"

\* the value of a decimal digit
DigitValue(c) == CHOOSE d \in 0..9 : ToString(d) = c

RECURSIVE ParseDigits(_, _)
\* the number the digits of str stand for, after the digits read so far
ParseDigits(str, sofar) ==
    IF Len(str) = 0 THEN sofar
    ELSE ParseDigits(Tail(str), 10 * sofar + DigitValue(SubSeq(str, 1, 1)))

\* the numeric value of a bucket
BucketValue(bucket) ==
    IF SubSeq(bucket, 1, 1) = "-" THEN 0 - ParseDigits(Tail(bucket), 0)
    ELSE ParseDigits(bucket, 0)

\* the next larger of the lengths tried, the length itself for the largest
NextLength(n) ==
    IF \E m \in Lengths : m > n
    THEN CHOOSE m \in Lengths : m > n /\ \A k \in Lengths : k > n => m <= k
    ELSE n

\* C23: quantizing the value of a bucket gives the bucket again; a larger
\* length never gets a bucket of smaller value; a negative length gets the
\* bucket of length 0.
C23_QuantizeSizeAlgebra ==
    Quantized =>
        /\ QuantizeSize(BucketValue(ret.bucket)) = ret.bucket
        /\ BucketValue(ret.bucket) <= BucketValue(QuantizeSize(NextLength(call.size)))
        /\ call.size < 0 => ret.bucket = QuantizeSize(0)

C23_Witness ==
    /\ Quantized
    /\ call.size = 999
    /\ ret.bucket = "900"
    /\ QuantizeSize(900) = "900"
    /\ QuantizeSize(NextLength(call.size)) = "1000"

Hashed == call.op = "Hash"

\* C24: two states have the same key exactly when their response class, size
\* bucket and depth are all equal.
C24_HashInjective ==
    Hashed =>
        (ret.hash1 = ret.hash2 <=>
            /\ call.state1.CodeClass = call.state2.CodeClass
            /\ call.state1.SizeBucket = call.state2.SizeBucket
            /\ call.state1.Depth = call.state2.Depth)

C24_Witness ==
    /\ Hashed
    /\ call.state1.CodeClass = call.state2.CodeClass
    /\ call.state1.SizeBucket = "10"
    /\ call.state2.SizeBucket = "10"
    /\ call.state1.Depth = 1
    /\ call.state2.Depth = 10
    /\ ret.hash1 # ret.hash2

(***************************************************************************)
(* The from-state of the adapter's transition update (checked under        *)
(* SpecAdapter).                                                           *)
(***************************************************************************)
\* the adapter records a response
Recording == call = NoCall /\ call'.op = "UpdateWithResponse"

\* the keys of the states recorded so far as the to-state of a transition
RecordedStates(tc) ==
    UNION {UNION {DOMAIN tc[from][action] : action \in DOMAIN tc[from]} : from \in DOMAIN tc}

\* C29: the transition recorded with a response starts at the baseline state
\* when no response was recorded before, and otherwise at the state of a
\* response recorded before (after one recorded response: at its state).
C29_FromStateIsLastRecorded ==
    [][Recording =>
        IF updates = 0
        THEN call'.from = Hash(baselineState)
        ELSE call'.from \in RecordedStates(TransitionCounts)]_vars

(***************************************************************************)
(* The index drawn from the matched-input memory (checked under            *)
(* SpecController).                                                        *)
(***************************************************************************)
\* the indexes getWeightedIndex can give for a memory of n entries
WeightedIndexes(n) == {getWeightedIndex(n, u2) : u2 \in Draws}

\* C30: for a memory of n entries every index drawn lies in 0..n-1, and with
\* two or more entries the newest one, at index n-1, can be drawn.
C30_WeightedIndexReachesNewest ==
    LET n == Len(matchedInputs)
    IN  n >= 1 =>
            /\ WeightedIndexes(n) \subseteq 0..(n - 1)
            /\ n >= 2 => (n - 1) \in WeightedIndexes(n)

(***************************************************************************)
(* Locks and atomicity of the transition model (checked under SpecLocks).  *)
(***************************************************************************)
\* the component locks a worker holds, a shared hold counted as a hold
LocksHeld(w) == threads[w].held

\* C26: no worker holds more than one component lock, so no worker enters a
\* lock-guarded component with the lock of another one held.
C26_OneLockPerThread == \A w \in Workers : Cardinality(LocksHeld(w)) <= 1

\* the UpdateTransition calls made whose counters are not written yet
PendingUpdates == {w \in Workers : threads[w].pc \in {"AddTransition", "counts"}}

\* the workers inside an update: its counters written, its Q-value not
MidUpdate == {w \in Workers : threads[w].pc = "q"}

\* C28: every UpdateTransition call made and past its counters has added
\* exactly one to the StateCounts total (none is lost when all have returned),
\* and no GetExpectedReward holding the read lock sees the tables while an
\* update has written its counters but not its Q-value.
C28_UpdateTransitionAtomic ==
    /\ SumOver(StateCounts, DOMAIN StateCounts) = updates - Cardinality(PendingUpdates)
    /\ \A r \in Workers : threads[r].pc = "read" => MidUpdate = {}
    /\ Cardinality(MidUpdate) <= 1

\* one update is between its counters and its Q-value while a second one,
\* already called through the adapter, waits for the model's lock
C28_Witness ==
    /\ updates = 2
    /\ \E w1, w2 \in Workers :
        /\ threads[w1].pc = "q"
        /\ threads[w2].pc = "AddTransition"
        /\ SumOver(StateCounts, DOMAIN StateCounts) = 1

(***************************************************************************)
(* Workers on one feedback controller (checked under SpecWorkers).         *)
(***************************************************************************)
\* no worker is inside a call
AllReturned == \A w \in Workers : threads[w].pc = "idle"

\* the last n entries of a sequence
LastOf(seq, n) == [k \in 1..n |-> seq[Len(seq) - n + k]]

\* C25: once every UpdateWithResponse call has returned, the response history
\* holds the states of the last min(N, 100) of the N calls, each once, in the
\* order in which the chain's lock serialized the calls.
C25_UpdatesSerialized ==
    AllReturned =>
        /\ Len(responseHistory) = Min(probes, maxHistory)
        /\ responseHistory = LastOf(History, Min(probes, maxHistory))

\* the worker is inside a draw from the controller's random source
InRand(w) == threads[w].pc \in {"Float64:gate", "Float64:index"}

\* C27: a worker that draws from the random source holds the controller's
\* lock, and no two workers draw at the same time.
C27_DrawsUnderControllerLock ==
    /\ \A w \in Workers : InRand(w) => "controller" \in threads[w].held
    /\ \A w1, w2 \in Workers : InRand(w1) /\ InRand(w2) => w1 = w2

(***************************************************************************)
(* The transition probabilities of the controller's chain (checked under   *)
(* SpecController).                                                        *)
(***************************************************************************)
\* the states the chain has seen
Visited == {History[k] : k \in 1..Len(History)}

\* the number of times the chain went from one state straight to another
ObservedTransitions(from, to) ==
    Cardinality({k \in 1..(Len(History) - 1) : History[k] = from /\ History[k + 1] = to})

\* the number of times the chain left a state
ObservedLeaving(from) ==
    Cardinality({k \in 1..(Len(History) - 1) : History[k] = from})

\* two probabilities held as <<numerator, denominator>> are the same number
SameProb(a, b) == a[1] * b[2] = b[1] * a[2]

\* C31: the probability of from -> to is the number of observed from -> to
\* transitions over the number of observed transitions out of from, 0 when
\* from was never left or to never followed it, and the probabilities of the
\* successors of a state that was left sum to 1.
C31_ProbabilityIsFrequency ==
    \A from \in Visited \cup {ZeroState} :
        /\ \A to \in Visited \cup {ZeroState} :
            SameProb(GetTransitionProbability(mTransitions, from, to),
                     IF ObservedLeaving(from) = 0 THEN <<0, 1>>
                     ELSE <<ObservedTransitions(from, to), ObservedLeaving(from)>>)
        /\ ObservedLeaving(from) > 0 =>
                LET row == mTransitions[String(from)]
                IN  /\ \A n \in DOMAIN row : row[n][2] = ObservedLeaving(from)
                    /\ SumOver([n \in DOMAIN row |-> row[n][1]], DOMAIN row)
                           = ObservedLeaving(from)

\* a state left twice, for two different successors
C31_Witness ==
    \E from, to \in Visited :
        /\ ObservedLeaving(from) = 2
        /\ ObservedTransitions(from, to) = 1
        /\ GetTransitionProbability(mTransitions, from, to) = <<1, 2>>

(***************************************************************************)
(* The chain's public UpdateTransition (checked under SpecWorkers).        *)
(***************************************************************************)
\* C32: a worker inside UpdateTransition that is about to lock the chain's
\* mutex for updateProbabilities does not hold that mutex already.
C32_NoLockWhileHeld ==
    \A w \in Workers : threads[w].pc = "updateProbabilities" => "chain" \notin threads[w].held

(***************************************************************************)
(* What one UpdateChain call records (checked under SpecController, where  *)
(* every UpdateWithResponse makes one UpdateChain call).                   *)
(***************************************************************************)
\* the controller hands a state to the chain
ChainUpdated == call = NoCall /\ call'.op = "UpdateWithResponse"

\* the count of from -> to, 0 when none was counted
CountOf(counts, fromStr, toStr) == Get(Get(counts, fromStr, EmptyMap), toStr, 0)

\* the number of transitions counted in all
TotalCount(counts) ==
    SumOver([f \in DOMAIN counts |-> SumOver(counts[f], DOMAIN counts[f])], DOMAIN counts)

\* C33: an UpdateChain(s) call appends s to History and makes it the current
\* state; on an empty History it counts nothing, otherwise it adds one to the
\* count from the last History entry to s and to no other count; so History
\* has one entry per call and one transition less has been counted.
C33_UpdateChainRecordsOneStep ==
    [][ChainUpdated =>
        LET s == call'.state
        IN  /\ History' = Append(History, s)
            /\ CurrentState' = s
            /\ History = <<>> => mStateCounts' = mStateCounts /\ mTransitions' = mTransitions
            /\ History # <<>> =>
                  \A f \in DOMAIN mStateCounts' : \A t \in DOMAIN mStateCounts'[f] :
                      CountOf(mStateCounts', f, t) =
                          CountOf(mStateCounts, f, t)
                              + (IF f = String(History[Len(History)]) /\ t = String(s)
                                 THEN 1 ELSE 0)
            /\ TotalCount(mStateCounts') = Len(History') - 1]_vars

\* three calls made, the third with a state different from the first
C33_Witness ==
    /\ call.op = "UpdateWithResponse"
    /\ Len(History) = 3
    /\ History[1] # History[2]
    /\ TotalCount(mStateCounts) = 2
    /\ CurrentState = History[3]

(***************************************************************************)
(* A scan driven through the adapter (checked under SpecAdapter).          *)
(***************************************************************************)
\* the caller makes Next and Value calls only, and keeps calling Next
ScanDriven ==
    /\ [](call.op \in {"none", "Next", "Value"})
    /\ []<>(call.op = "Next")

\* Next has returned false
NextExhausted == call.op = "Next" /\ pc = "idle" /\ ret = [ok |-> FALSE]

\* C34: a caller that drives the adapter with Next and Value calls alone gets
\* to the end of the wrapped provider: at some point Next returns false.
C34_ScanTerminates == ScanDriven => <>NextExhausted

(***************************************************************************)
(* The two results of GetNextInput (checked under SpecController).         *)
(***************************************************************************)
\* GetNextInput is called
SelectingNext == call = NoCall /\ call'.op = "GetNextInput"

\* no transition was observed from the last recorded state to a state of the
\* history that was a match
NoMatchTransitionSeen ==
    \A k \in 1..Len(responseHistory) :
        responseHistory[k].IsMatch =>
            CountOf(mStateCounts, String(responseHistory[Len(responseHistory)]),
                    String(responseHistory[k])) = 0

CountedStates == (DOMAIN StateCounts) \cup (DOMAIN ActionCounts) \cup (DOMAIN TransitionCounts)

\* C36: for every state the visit count is the sum of its action counts, every
\* action count is the sum of its transition counts, and the visit counts add
\* up to the number of UpdateTransition calls.
C36_CountersAgree ==
    /\ \A s \in CountedStates :
        LET actions == Get(ActionCounts, s, EmptyMap)
            nexts == Get(TransitionCounts, s, EmptyMap)
        IN  /\ Get(StateCounts, s, 0) = SumOver(actions, DOMAIN actions)
            /\ DOMAIN nexts \subseteq DOMAIN actions
            /\ \A a \in DOMAIN actions :
                LET row == Get(nexts, a, EmptyMap)
                IN  actions[a] = SumOver(row, DOMAIN row)
    /\ SumOver(StateCounts, DOMAIN StateCounts) = updates

\* two updates from one state with different actions and different next states
C36_Witness ==
    /\ updates = 2
    /\ \E s \in DOMAIN StateCounts :
        /\ StateCounts[s] = 2
        /\ DOMAIN ActionCounts[s] = Tokens
        /\ \E a \in Tokens : \E n \in DOMAIN TransitionCounts[s][a] : n # s

\* the actions listed for a state, as a set
Listed(stateKey) ==
    LET list == Get(AvailableActions, stateKey, <<>>)
    IN  {list[k] : k \in 1..Len(list)}

\* C40: the action list of a state names each action once, names exactly the
\* actions that have a Q-value for the state, and an update either leaves the
\* list alone (action already listed) or appends the new action at its end.
C40_ActionsListedOnce ==
    /\ [](\A s \in (DOMAIN AvailableActions) \cup (DOMAIN QTable) :
            /\ Cardinality(Listed(s)) = Len(Get(AvailableActions, s, <<>>))
            /\ Listed(s) = DOMAIN Get(QTable, s, EmptyMap))
    /\ [][Updating =>
            LET before == Get(AvailableActions, call'.from, <<>>)
            IN  /\ AvailableActions'[call'.from] =
                       IF containsString(before, call'.action) THEN before
                       ELSE Append(before, call'.action)
                /\ \A s \in DOMAIN AvailableActions :
                       s # call'.from => AvailableActions'[s] = AvailableActions[s]]_vars

\* a state updated twice with one action, which its list names once
C40_Witness ==
    \E s \in DOMAIN AvailableActions :
        /\ Len(AvailableActions[s]) = 1
        /\ ActionCounts[s][AvailableActions[s][1]] = 2

(***************************************************************************)
(* The sign of the Q-values when the rewards come from the reward function *)
(* (checked under SpecAdapter).                                            *)
(***************************************************************************)
\* C38: every reward the adapter passes on is non-negative, every Q-value of
\* the table is non-negative, and for every state the maximum the update
\* computes (which starts from 0) is the true maximum of the state's Q-values.
C38_QValuesNonNegative ==
    /\ call.op = "UpdateWithResponse" => call.reward >= 0
    /\ \A s \in DOMAIN QTable :
        /\ \A a \in DOMAIN QTable[s] : QTable[s][a] >= 0
        /\ MaxNextQ(QTable, s) = TrueMaxNextQ(QTable, s)

\* a second update whose next state is the updated state itself, which has a
\* positive Q-value from the first one
C38_Witness ==
    /\ updates = 2
    /\ call.op = "UpdateWithResponse"
    /\ call.to = call.from
    /\ TrueMaxNextQ(QTable, call.to) > 0
    /\ \E a \in DOMAIN QTable[call.from] :
        QTable[call.from][a] > 0 /\ QTable[call.from][a] < TrueMaxNextQ(QTable, call.to)

(***************************************************************************)
(* The size of the chain's own History over a long scan (checked under     *)
(* SpecHistory).                                                           *)
(***************************************************************************)
\* C37: neither the chain's History nor the controller's response history
\* ever holds more than maxHistory states.
C37_ChainHistoryBounded ==
    /\ Len(responseHistory) <= maxHistory
    /\ Len(History) <= maxHistory

(***************************************************************************)
(* The adapter's batch and index (checked under SpecAdapter).              *)
(***************************************************************************)
\* C39: the index is between 0 and the length of the batch, the batch never
\* holds more than batchSize items, and Value() with the index on an item
\* (as Next() left it when it served from the batch) returns that item.
C39_IndexWithinBatch ==
    /\ 0 <= currentIndex
    /\ currentIndex <= Len(currentBatch)
    /\ Len(currentBatch) <= batchSize
    /\ (call.op = "Value" /\ currentIndex > 0) => ret = currentBatch[currentIndex]

\* a full batch from a longer wordlist, served to its last item
C39_Witness ==
    /\ Len(source.inputs) > batchSize + 1
    /\ Len(currentBatch) = batchSize
    /\ currentIndex = batchSize
    /\ call.op = "Value"
    /\ ret = currentBatch[batchSize]

====
